---- MODULE Spec2Model ----
(***************************************************************************)
(* Model of the accounting suite's record handlers over its relational     *)
(* store: two tables (transactions, inventory_items), the handlers that    *)
(* create, update and delete records, and the requests that run them.      *)
(*                                                                         *)
(* A request runs one handler.  Every awaited store access of a handler is *)
(* one atomic step; requests in different slots interleave between steps.  *)
(* The repository holds several drafts of most handlers; a request picks   *)
(* the draft it runs (field "variant").  The placeholder declarations that *)
(* return a made-up record without touching the store are not modelled.    *)
(*                                                                         *)
(* The client is one mounted component (InventoryManager or                *)
(* TransactionManager) with its local list; its handlers send requests and *)
(* apply the responses in whatever order they arrive.                      *)
(*                                                                         *)
(* Numbers: a JS number is an integer count of thousandths, a value of a   *)
(* numeric(_, 2) column is an integer count of hundredths.                 *)
(***************************************************************************)
EXTENDS Integers, FiniteSets, Sequences, TLC

VARIABLES items, txns, nextItemId, nextTxnId, now, req, calls, client

vars == <<items, txns, nextItemId, nextTxnId, now, req, calls, client>>

\* Bounds of the model.
MaxId == 2
MaxTime == 1
MaxCalls == 3
MaxConcurrentCalls == 2

Slots == {1, 2}
Ids == 1..MaxId

----------------------------------------------------------------------------
\* Conversions at the handler boundary.

\* A column that drops the digits after the second.
NumericScale2_Truncate(x) == x \div 10

\* x.toString() written to a numeric(_, 2) column: the store keeps the value
\* rounded to the nearest hundredth, halves away from zero (inputs are >= 0).
NumericScale2(x) == (x + 5) \div 10

\* parseFloat of the text of a numeric(_, 2) column.
parseFloat(c) == c * 10

\* new Date(s) for the date strings the model uses (day number within 2024).
ParseDateString(s) ==
    CASE s = "2024-01-15" -> 15
      [] s = "2024-02-01" -> 32
      [] OTHER -> 0

\* typeof d === 'string' ? new Date(d) : d
ToDate(d) == IF "str" \in DOMAIN d THEN ParseDateString(d.str) ELSE d.date

----------------------------------------------------------------------------
\* Error messages.

ErrItemSkuExists == "Item with SKU already exists"
ErrSkuExists == "SKU already exists"
ErrSkuExistsOther == "SKU already exists for another item"
ErrItemIdNotFound == "Inventory item with id not found"
ErrItemNotFound == "Inventory item not found"
ErrTxnIdNotFound == "Transaction with id not found"
ErrTxnNotFound == "Transaction not found"
PgUniqueViolation == "duplicate key value violates unique constraint inventory_items_sku_unique"
ErrNoValuesToSet == "No values to set"
ErrTypeError == "TypeError: undefined is not an object"

\* The catch clause looks for a constraint name the store does not use.
IncludesSkuUnique_WrongName(m) == m = "inventory_items_sku_key"

\* error.message.includes('inventory_items_sku_unique')
IncludesSkuUnique(m) == m = PgUniqueViolation

\* error.message.includes('duplicate key value violates unique constraint')
IncludesDuplicateKey(m) == m = PgUniqueViolation

Ok(v) == [ok |-> TRUE, value |-> v]
Fail(m) == [ok |-> FALSE, error |-> m]

----------------------------------------------------------------------------
\* The store.

\* The sku column declared without unique().
SkuUniqueViolated_NoIndex(rows, id, sku) == FALSE

\* The unique index on inventory_items.sku: writing sku to the row with this
\* id collides with another row.
SkuUniqueViolated(rows, id, sku) == \E r \in rows : r.sku = sku /\ r.id # id

\* The selling price column filled from the unit cost.
ItemValues_CostAsPrice(input) ==
    [itemName |-> input.itemName, sku |-> input.sku, quantity |-> input.quantity,
     unitCost |-> NumericScale2(input.unitCost),
     sellingPrice |-> NumericScale2(input.unitCost)]

\* Row values of an item: toString of the decimal fields.
ItemValues(input) ==
    [itemName |-> input.itemName, sku |-> input.sku, quantity |-> input.quantity,
     unitCost |-> NumericScale2(input.unitCost),
     sellingPrice |-> NumericScale2(input.sellingPrice)]

\* insert into inventory_items ... returning: id from the serial sequence,
\* created_at and updated_at from defaultNow().
InsertedItem(values, id, t) ==
    [id |-> id, itemName |-> values.itemName, sku |-> values.sku,
     quantity |-> values.quantity, unitCost |-> values.unitCost,
     sellingPrice |-> values.sellingPrice, created_at |-> t, updated_at |-> t]

\* A row with the columns named in set overwritten.
SetColumns(row, set) ==
    [f \in DOMAIN row |-> IF f \in DOMAIN set THEN set[f] ELSE row[f]]

\* The item converted for the caller: parseFloat of the decimal columns.
ItemOut(row) ==
    [row EXCEPT !.unitCost = parseFloat(row.unitCost),
                !.sellingPrice = parseFloat(row.sellingPrice)]

\* The transaction converted for the caller.
TxnOut(row) == [row EXCEPT !.amount = parseFloat(row.amount)]

ItemById(rows, id) == {r \in rows : r.id = id}

\* What a reading of the clock (new Date(), defaultNow()) can return: the
\* time of the latest reading, or a later one.
ClockReadings == {now} \cup {t \in {now + 1} : t <= MaxTime}

----------------------------------------------------------------------------
\* Requests.

Idle == [pc |-> "idle"]

Snapshot == [items |-> items, txns |-> txns, now |-> now]

Started(op, variant, input, pc) ==
    [pc |-> pc, op |-> op, variant |-> variant, input |-> input, pre |-> Snapshot]

Finished(r, out) ==
    [pc |-> "done", op |-> r.op, variant |-> r.variant, input |-> r.input,
     pre |-> r.pre, out |-> out]

At(r, pc) == [r EXCEPT !.pc = pc]

\* Inputs of createInventoryItem.
ItemInputs ==
    { [itemName |-> "Another", sku |-> "A", quantity |-> 0, unitCost |-> 0, sellingPrice |-> 1000],
      [itemName |-> "Sprocket", sku |-> "C", quantity |-> 30, unitCost |-> 15754, sellingPrice |-> 29990] }

----------------------------------------------------------------------------
\* createInventoryItem

CallCreateInventoryItem(s) ==
    /\ req[s].pc = "idle"
    /\ calls' = calls + 1
    /\ \E input \in ItemInputs, v \in {1, 2} :
          req' = [req EXCEPT ![s] = Started("createInventoryItem", v, input,
                                            IF v = 1 THEN "select_sku" ELSE "insert")]
    /\ UNCHANGED <<items, txns, nextItemId, nextTxnId, now, client>>

\* Draft 1: select the items with the input's SKU and refuse when there is one.
CreateItemSelectSku(s) ==
    /\ req[s].pc = "select_sku"
    /\ req[s].op = "createInventoryItem"
    /\ LET r == req[s]
           existingItem == {i \in items : i.sku = r.input.sku}
       IN req' = [req EXCEPT ![s] =
                    IF existingItem # {} THEN Finished(r, Fail(ErrItemSkuExists))
                    ELSE At(r, "insert")]
    /\ UNCHANGED <<items, txns, nextItemId, nextTxnId, now, calls, client>>

\* Draft 1: the insert.  The sequence advances whether or not the row is
\* accepted; what the store throws is rethrown as it is.
CreateItemInsert(s) ==
    /\ req[s].pc = "insert"
    /\ req[s].op = "createInventoryItem"
    /\ req[s].variant = 1
    /\ \E t \in ClockReadings :
          LET r == req[s]
              row == InsertedItem(ItemValues(r.input), nextItemId, t)
          IN /\ now' = t
             /\ IF SkuUniqueViolated(items, row.id, row.sku)
                THEN /\ items' = items
                     /\ req' = [req EXCEPT ![s] = Finished(r, Fail(PgUniqueViolation))]
                ELSE /\ items' = items \cup {row}
                     /\ req' = [req EXCEPT ![s] = Finished(r, Ok(ItemOut(row)))]
    /\ nextItemId' = nextItemId + 1
    /\ UNCHANGED <<txns, nextTxnId, calls, client>>

\* Draft 2: the insert without a check before it; the store's unique
\* violation is rewritten to an 'already exists' error.
CreateItemInsertCatch(s) ==
    /\ req[s].pc = "insert"
    /\ req[s].op = "createInventoryItem"
    /\ req[s].variant = 2
    /\ \E t \in ClockReadings :
          LET r == req[s]
              row == InsertedItem(ItemValues(r.input), nextItemId, t)
          IN /\ now' = t
             /\ IF SkuUniqueViolated(items, row.id, row.sku)
                THEN /\ items' = items
                     /\ req' = [req EXCEPT ![s] = Finished(r,
                                  IF IncludesSkuUnique(PgUniqueViolation)
                                  THEN Fail(ErrSkuExists) ELSE Fail(PgUniqueViolation))]
                ELSE /\ items' = items \cup {row}
                     /\ req' = [req EXCEPT ![s] = Finished(r, Ok(ItemOut(row)))]
    /\ nextItemId' = nextItemId + 1
    /\ UNCHANGED <<txns, nextTxnId, calls, client>>

----------------------------------------------------------------------------
\* updateInventoryItem

\* Partial field sets of updateInventoryItem: a field is present in the input
\* exactly when it is in the patch's domain.
ItemPatches ==
    { <<>>,
      [sku |-> "A"],
      [sku |-> "B", itemName |-> "Renamed"],
      [quantity |-> 0, unitCost |-> 12345] }

Has(input, f) == f \in DOMAIN input.patch

\* The columns the update sets: the fields that are not undefined, decimals
\* through toString, and always updated_at = new Date().
ItemUpdateValues(input, t) ==
    [f \in (DOMAIN input.patch) \cup {"updated_at"} |->
        IF f = "updated_at" THEN t
        ELSE IF f \in {"unitCost", "sellingPrice"} THEN NumericScale2(input.patch[f])
        ELSE input.patch[f]]

CallUpdateInventoryItem(s) ==
    /\ req[s].pc = "idle"
    /\ calls' = calls + 1
    /\ \E id \in Ids, patch \in ItemPatches, v \in {1, 2} :
          req' = [req EXCEPT ![s] = Started("updateInventoryItem", v,
                                            [id |-> id, patch |-> patch],
                                            IF v = 1 THEN "select_id" ELSE "update")]
    /\ UNCHANGED <<items, txns, nextItemId, nextTxnId, now, client>>

\* Draft 1: check that the item exists.
UpdateItemSelectId(s) ==
    /\ req[s].pc = "select_id"
    /\ req[s].op = "updateInventoryItem"
    /\ LET r == req[s]
           existingItem == ItemById(items, r.input.id)
       IN req' = [req EXCEPT ![s] =
                    IF existingItem = {} THEN Finished(r, Fail(ErrItemIdNotFound))
                    ELSE IF Has(r.input, "sku") /\ r.input.patch.sku # ""
                         THEN At(r, "select_conflict")
                    ELSE At(r, "update")]
    /\ UNCHANGED <<items, txns, nextItemId, nextTxnId, now, calls, client>>

\* The conflict query without ne(id, input.id).
SkuConflict_AnyItem(rows, sku, id) == {i \in rows : i.sku = sku}

\* The items other than id that have the SKU.
SkuConflict(rows, sku, id) == {i \in rows : i.sku = sku /\ i.id # id}

\* Draft 1: if the SKU is being updated, look for another item that has it.
UpdateItemSelectConflict(s) ==
    /\ req[s].pc = "select_conflict"
    /\ req[s].op = "updateInventoryItem"
    /\ LET r == req[s]
           skuConflict == SkuConflict(items, r.input.patch.sku, r.input.id)
       IN req' = [req EXCEPT ![s] =
                    IF skuConflict # {} THEN Finished(r, Fail(ErrSkuExistsOther))
                    ELSE At(r, "update")]
    /\ UNCHANGED <<items, txns, nextItemId, nextTxnId, now, calls, client>>

\* updated_at written by a statement of its own before the one the unique
\* index rejects.
UpdateItemRows_TouchFirst(rows, id, set) ==
    LET target == ItemById(rows, id)
    IN IF target = {} THEN [err |-> "", rows |-> rows, returning |-> {}]
       ELSE LET old == CHOOSE i \in target : TRUE
                touched == [old EXCEPT !.updated_at = set.updated_at]
                new == SetColumns(old, set)
            IN IF SkuUniqueViolated(rows, id, new.sku)
               THEN [err |-> PgUniqueViolation, rows |-> (rows \ {old}) \cup {touched},
                     returning |-> {}]
               ELSE [err |-> "", rows |-> (rows \ {old}) \cup {new}, returning |-> {new}]

\* The unique index consulted for the new SKU before the row is looked for.
UpdateItemRows_IndexFirst(rows, id, set) ==
    IF "sku" \in DOMAIN set /\ SkuUniqueViolated(rows, id, set.sku)
    THEN [err |-> PgUniqueViolation, rows |-> rows, returning |-> {}]
    ELSE LET target == ItemById(rows, id)
         IN IF target = {} THEN [err |-> "", rows |-> rows, returning |-> {}]
            ELSE LET old == CHOOSE i \in target : TRUE
                     new == SetColumns(old, set)
                 IN [err |-> "", rows |-> (rows \ {old}) \cup {new}, returning |-> {new}]

\* What the update statement does to the table: nothing when no row has the
\* id, a unique violation when the new SKU collides, the row rewritten
\* otherwise.
UpdateItemRows(rows, id, set) ==
    LET target == ItemById(rows, id)
    IN IF target = {} THEN [err |-> "", rows |-> rows, returning |-> {}]
       ELSE LET old == CHOOSE i \in target : TRUE
                new == SetColumns(old, set)
            IN IF SkuUniqueViolated(rows, id, new.sku)
               THEN [err |-> PgUniqueViolation, rows |-> rows, returning |-> {}]
               ELSE [err |-> "", rows |-> (rows \ {old}) \cup {new}, returning |-> {new}]

\* Draft 1: the update.  result[0] is read unconditionally, and what the
\* store throws is rethrown as it is.
UpdateItemUpdate(s) ==
    /\ req[s].pc = "update"
    /\ req[s].op = "updateInventoryItem"
    /\ req[s].variant = 1
    /\ \E t \in ClockReadings :
          LET r == req[s]
              res == UpdateItemRows(items, r.input.id, ItemUpdateValues(r.input, t))
          IN /\ now' = t
             /\ items' = res.rows
             /\ req' = [req EXCEPT ![s] = Finished(r,
                   IF res.err # "" THEN Fail(res.err)
                   ELSE IF res.returning = {} THEN Fail(ErrTypeError)
                   ELSE Ok(ItemOut(CHOOSE i \in res.returning : TRUE)))]
    /\ UNCHANGED <<txns, nextItemId, nextTxnId, calls, client>>

\* Draft 2: the update without a check before it.  An empty result is
\* reported as not found, and the store's unique violation is rewritten to
\* an 'already exists' error.
UpdateItemUpdateCatch(s) ==
    /\ req[s].pc = "update"
    /\ req[s].op = "updateInventoryItem"
    /\ req[s].variant = 2
    /\ \E t \in ClockReadings :
          LET r == req[s]
              res == UpdateItemRows(items, r.input.id, ItemUpdateValues(r.input, t))
          IN /\ now' = t
             /\ items' = res.rows
             /\ req' = [req EXCEPT ![s] = Finished(r,
                   IF res.err # ""
                   THEN IF IncludesDuplicateKey(res.err) THEN Fail(ErrSkuExists)
                        ELSE Fail(res.err)
                   ELSE IF res.returning = {} THEN Fail(ErrItemNotFound)
                   ELSE Ok(ItemOut(CHOOSE i \in res.returning : TRUE)))]
    /\ UNCHANGED <<txns, nextItemId, nextTxnId, calls, client>>

----------------------------------------------------------------------------
\* deleteInventoryItem

CallDeleteInventoryItem(s) ==
    /\ req[s].pc = "idle"
    /\ calls' = calls + 1
    /\ \E id \in Ids, v \in {1, 2} :
          req' = [req EXCEPT ![s] = Started("deleteInventoryItem", v, [id |-> id],
                                            IF v = 1 THEN "delete" ELSE "select_id")]
    /\ UNCHANGED <<items, txns, nextItemId, nextTxnId, now, client>>

\* The answer of draft 1 to a delete: an empty result is reported as not
\* found.
DeleteItemOutcome(result) ==
    IF result = {} THEN Fail(ErrItemIdNotFound) ELSE Ok([success |-> TRUE])

\* The delete without its where clause, once the item is known to exist.
DeleteItemRows_All(rows, id) == IF ItemById(rows, id) = {} THEN rows ELSE {}

\* delete from inventory_items where id = ...
DeleteItemRows(rows, id) == rows \ ItemById(rows, id)

\* Draft 1: delete returning the deleted rows.
DeleteItemDeleteReturning(s) ==
    /\ req[s].pc = "delete"
    /\ req[s].op = "deleteInventoryItem"
    /\ req[s].variant = 1
    /\ LET r == req[s]
           result == ItemById(items, r.input.id)
       IN /\ items' = DeleteItemRows(items, r.input.id)
          /\ req' = [req EXCEPT ![s] = Finished(r, DeleteItemOutcome(result))]
    /\ UNCHANGED <<txns, nextItemId, nextTxnId, now, calls, client>>

\* Draft 2: check that the item exists.
DeleteItemSelectId(s) ==
    /\ req[s].pc = "select_id"
    /\ req[s].op = "deleteInventoryItem"
    /\ LET r == req[s]
           existingItem == ItemById(items, r.input.id)
       IN req' = [req EXCEPT ![s] =
                    IF existingItem = {} THEN Finished(r, Fail(ErrItemIdNotFound))
                    ELSE At(r, "delete")]
    /\ UNCHANGED <<items, txns, nextItemId, nextTxnId, now, calls, client>>

\* Draft 2: the delete; its result is not looked at.
DeleteItemDelete(s) ==
    /\ req[s].pc = "delete"
    /\ req[s].op = "deleteInventoryItem"
    /\ req[s].variant = 2
    /\ LET r == req[s]
       IN /\ items' = DeleteItemRows(items, r.input.id)
          /\ req' = [req EXCEPT ![s] = Finished(r, Ok([success |-> TRUE]))]
    /\ UNCHANGED <<txns, nextItemId, nextTxnId, now, calls, client>>

----------------------------------------------------------------------------
\* createTransaction

\* Inputs of createTransaction.
TxnInputs ==
    { [date |-> [str |-> "2024-01-15"], description |-> "Sale", amount |-> 100500,
       type |-> "Income", category |-> "Sales"],
      [date |-> [date |-> 32], description |-> "Rent", amount |-> 123457,
       type |-> "Expense", category |-> "Rent"] }

\* Row values of a transaction: the date converted, the amount through toString.
TxnValues(input) ==
    [date |-> ToDate(input.date), description |-> input.description,
     amount |-> NumericScale2(input.amount), type |-> input.type,
     category |-> input.category]

\* insert into transactions ... returning: id from the serial sequence,
\* created_at from defaultNow().
InsertedTxn(values, id, t) ==
    [id |-> id, date |-> values.date, description |-> values.description,
     amount |-> values.amount, type |-> values.type, category |-> values.category,
     created_at |-> t]

TxnById(rows, id) == {r \in rows : r.id = id}

CallCreateTransaction(s) ==
    /\ req[s].pc = "idle"
    /\ calls' = calls + 1
    /\ \E input \in TxnInputs :
          req' = [req EXCEPT ![s] = Started("createTransaction", 1, input, "insert")]
    /\ UNCHANGED <<items, txns, nextItemId, nextTxnId, now, client>>

\* The insert taking its id without advancing the sequence.
CreateTxnInsert_NoAdvance(s) ==
    /\ req[s].pc = "insert"
    /\ req[s].op = "createTransaction"
    /\ \E t \in ClockReadings :
          LET r == req[s]
              row == InsertedTxn(TxnValues(r.input), nextTxnId, t)
          IN /\ now' = t
             /\ txns' = txns \cup {row}
             /\ req' = [req EXCEPT ![s] = Finished(r, Ok(TxnOut(row)))]
    /\ UNCHANGED <<items, nextItemId, nextTxnId, calls, client>>

CreateTxnInsert(s) ==
    /\ req[s].pc = "insert"
    /\ req[s].op = "createTransaction"
    /\ \E t \in ClockReadings :
          LET r == req[s]
              row == InsertedTxn(TxnValues(r.input), nextTxnId, t)
          IN /\ now' = t
             /\ txns' = txns \cup {row}
             /\ req' = [req EXCEPT ![s] = Finished(r, Ok(TxnOut(row)))]
    /\ nextTxnId' = nextTxnId + 1
    /\ UNCHANGED <<items, nextItemId, calls, client>>

----------------------------------------------------------------------------
\* updateTransaction

\* Partial field sets of updateTransaction.
TxnPatches ==
    { <<>>,
      [description |-> "Partial", amount |-> 150254],
      [type |-> "Expense", category |-> "Marketing"],
      [date |-> [str |-> "2024-02-01"]] }

\* The update built with a default for an absent type, as input.type || 'Income'.
TxnUpdateValues_Defaults(input) ==
    [f \in (DOMAIN input.patch) \cup {"type"} |->
        IF f \notin DOMAIN input.patch THEN "Income"
        ELSE IF f = "date" THEN ToDate(input.patch[f])
        ELSE IF f = "amount" THEN NumericScale2(input.patch[f])
        ELSE input.patch[f]]

\* The columns the update sets: the fields that are not undefined.
TxnUpdateValues(input) ==
    [f \in DOMAIN input.patch |->
        IF f = "date" THEN ToDate(input.patch[f])
        ELSE IF f = "amount" THEN NumericScale2(input.patch[f])
        ELSE input.patch[f]]

\* The query builder's set() refuses an object without a defined value.
NoValuesToSet(set) == DOMAIN set = {}

\* The update writing the new version of the row next to the old one.
UpdateTxnRows_KeepOld(rows, id, set) ==
    LET target == TxnById(rows, id)
    IN IF target = {} THEN [rows |-> rows, returning |-> {}]
       ELSE LET old == CHOOSE t \in target : TRUE
                new == SetColumns(old, set)
            IN [rows |-> rows \cup {new}, returning |-> {new}]

\* What the update statement does to the table.
UpdateTxnRows(rows, id, set) ==
    LET target == TxnById(rows, id)
    IN IF target = {} THEN [rows |-> rows, returning |-> {}]
       ELSE LET old == CHOOSE t \in target : TRUE
                new == SetColumns(old, set)
            IN [rows |-> (rows \ {old}) \cup {new}, returning |-> {new}]

\* Draft 2 builds the update before any store access; with nothing to set
\* the builder throws there.
CallUpdateTransaction(s) ==
    /\ req[s].pc = "idle"
    /\ calls' = calls + 1
    /\ \E id \in Ids, patch \in TxnPatches, v \in {1, 2} :
          LET r == Started("updateTransaction", v, [id |-> id, patch |-> patch],
                           IF v = 1 THEN "select_id" ELSE "update")
          IN req' = [req EXCEPT ![s] =
                IF v = 2 /\ NoValuesToSet(TxnUpdateValues(r.input))
                THEN Finished(r, Fail(ErrNoValuesToSet)) ELSE r]
    /\ UNCHANGED <<items, txns, nextItemId, nextTxnId, now, client>>

\* Draft 1: check that the transaction exists, then build the update.
UpdateTxnSelectId(s) ==
    /\ req[s].pc = "select_id"
    /\ req[s].op = "updateTransaction"
    /\ LET r == req[s]
           existing == TxnById(txns, r.input.id)
       IN req' = [req EXCEPT ![s] =
                    IF existing = {} THEN Finished(r, Fail(ErrTxnIdNotFound))
                    ELSE IF NoValuesToSet(TxnUpdateValues(r.input))
                         THEN Finished(r, Fail(ErrNoValuesToSet))
                    ELSE At(r, "update")]
    /\ UNCHANGED <<items, txns, nextItemId, nextTxnId, now, calls, client>>

\* The update writing back the whole row as it was when the call began, with
\* the input's fields replaced.
UpdateTxnUpdate_FromRead(s) ==
    /\ req[s].pc = "update"
    /\ req[s].op = "updateTransaction"
    /\ req[s].variant = 1
    /\ LET r == req[s]
           read == TxnById(r.pre.txns, r.input.id)
           res == IF read = {} \/ TxnById(txns, r.input.id) = {}
                  THEN [rows |-> txns, returning |-> {}]
                  ELSE LET new == SetColumns(CHOOSE t \in read : TRUE,
                                             TxnUpdateValues(r.input))
                       IN [rows |-> (txns \ TxnById(txns, r.input.id)) \cup {new},
                           returning |-> {new}]
       IN /\ txns' = res.rows
          /\ req' = [req EXCEPT ![s] = Finished(r,
                IF res.returning = {} THEN Fail(ErrTypeError)
                ELSE Ok(TxnOut(CHOOSE t \in res.returning : TRUE)))]
    /\ UNCHANGED <<items, nextItemId, nextTxnId, now, calls, client>>

\* Draft 1: the update; result[0] is read unconditionally.
UpdateTxnUpdate(s) ==
    /\ req[s].pc = "update"
    /\ req[s].op = "updateTransaction"
    /\ req[s].variant = 1
    /\ LET r == req[s]
           res == UpdateTxnRows(txns, r.input.id, TxnUpdateValues(r.input))
       IN /\ txns' = res.rows
          /\ req' = [req EXCEPT ![s] = Finished(r,
                IF res.returning = {} THEN Fail(ErrTypeError)
                ELSE Ok(TxnOut(CHOOSE t \in res.returning : TRUE)))]
    /\ UNCHANGED <<items, nextItemId, nextTxnId, now, calls, client>>

\* Draft 2: the update without a check before it; an empty result is
\* reported as not found.
UpdateTxnUpdateReturning(s) ==
    /\ req[s].pc = "update"
    /\ req[s].op = "updateTransaction"
    /\ req[s].variant = 2
    /\ LET r == req[s]
           res == UpdateTxnRows(txns, r.input.id, TxnUpdateValues(r.input))
       IN /\ txns' = res.rows
          /\ req' = [req EXCEPT ![s] = Finished(r,
                IF res.returning = {} THEN Fail(ErrTxnNotFound)
                ELSE Ok(TxnOut(CHOOSE t \in res.returning : TRUE)))]
    /\ UNCHANGED <<items, nextItemId, nextTxnId, now, calls, client>>

----------------------------------------------------------------------------
\* deleteTransaction

CallDeleteTransaction(s) ==
    /\ req[s].pc = "idle"
    /\ calls' = calls + 1
    /\ \E id \in Ids :
          req' = [req EXCEPT ![s] = Started("deleteTransaction", 1, [id |-> id], "delete")]
    /\ UNCHANGED <<items, txns, nextItemId, nextTxnId, now, client>>

\* The result of the delete is not looked at.
DeleteTxnOutcome_NoCheck(result) == Ok([success |-> TRUE])

\* The answer to a delete: an empty result is reported as not found.
DeleteTxnOutcome(result) ==
    IF result = {} THEN Fail(ErrTxnIdNotFound) ELSE Ok([success |-> TRUE])

\* delete from transactions where id = ...
DeleteTxnRows(rows, id) == rows \ TxnById(rows, id)

\* Delete returning the deleted rows.
DeleteTxnDelete(s) ==
    /\ req[s].pc = "delete"
    /\ req[s].op = "deleteTransaction"
    /\ LET r == req[s]
           result == TxnById(txns, r.input.id)
       IN /\ txns' = DeleteTxnRows(txns, r.input.id)
          /\ req' = [req EXCEPT ![s] = Finished(r, DeleteTxnOutcome(result))]
    /\ UNCHANGED <<items, nextItemId, nextTxnId, now, calls, client>>

----------------------------------------------------------------------------
\* getFinancialSummary

\* Inputs of getFinancialSummary: a range holding both dates the model uses,
\* one that starts after the first, one whose start is later than its end,
\* and one of a single day.
FinancialReportInputs ==
    { [startDate |-> [str |-> "2024-01-15"], endDate |-> [date |-> 32]],
      [startDate |-> [date |-> 16], endDate |-> [str |-> "2024-02-01"]],
      [startDate |-> [date |-> 32], endDate |-> [str |-> "2024-01-15"]],
      [startDate |-> [date |-> 15], endDate |-> [date |-> 15]] }

\* The rows the conditions select with a strict upper bound on the date.
SelectInRange_ExclusiveEnd(rows, startDate, endDate, type) ==
    {t \in rows : startDate <= t.date /\ t.date < endDate /\ t.type = type}

\* The rows the conditions select without the lower bound on the date.
SelectInRange_NoStart(rows, startDate, endDate, type) ==
    {t \in rows : t.date <= endDate /\ t.type = type}

\* where date >= startDate and date <= endDate and type = ...
SelectInRange(rows, startDate, endDate, type) ==
    {t \in rows : startDate <= t.date /\ t.date <= endDate /\ t.type = type}

RECURSIVE SumAmount(_)
\* The exact sum of the amount column over rows, in hundredths.
SumAmount(rows) ==
    IF rows = {} THEN 0
    ELSE LET t == CHOOSE x \in rows : TRUE IN t.amount + SumAmount(rows \ {t})

\* select sum(amount): one result row whose total is null when no row is
\* selected and the text of the sum otherwise.
SelectSum(rows) ==
    IF rows = {} THEN [null |-> TRUE] ELSE [null |-> FALSE, text |-> SumAmount(rows)]

\* result[0]?.total ? parseFloat(result[0].total) : 0
TotalOf(result) == IF result.null THEN 0 ELSE parseFloat(result.text)

CallGetFinancialSummary(s) ==
    /\ req[s].pc = "idle"
    /\ calls' = calls + 1
    /\ \E input \in FinancialReportInputs :
          req' = [req EXCEPT ![s] = Started("getFinancialSummary", 1, input, "select_income")]
    /\ UNCHANGED <<items, txns, nextItemId, nextTxnId, now, client>>

\* The first query: the sum of the Income transactions in the range.
GetFinancialSummaryIncome(s) ==
    /\ req[s].pc = "select_income"
    /\ req[s].op = "getFinancialSummary"
    /\ LET r == req[s]
           startDate == ToDate(r.input.startDate)
           endDate == ToDate(r.input.endDate)
           incomeResult == SelectSum(SelectInRange(txns, startDate, endDate, "Income"))
       IN req' = [req EXCEPT ![s] =
                    [pc |-> "select_expense", op |-> r.op, variant |-> r.variant,
                     input |-> r.input, pre |-> r.pre, incomeResult |-> incomeResult]]
    /\ UNCHANGED <<items, txns, nextItemId, nextTxnId, now, calls, client>>

\* The second query: the sum of the Expense transactions in the range; then
\* the totals, their difference and the period.
GetFinancialSummaryExpense(s) ==
    /\ req[s].pc = "select_expense"
    /\ req[s].op = "getFinancialSummary"
    /\ LET r == req[s]
           startDate == ToDate(r.input.startDate)
           endDate == ToDate(r.input.endDate)
           expenseResult == SelectSum(SelectInRange(txns, startDate, endDate, "Expense"))
           totalIncome == TotalOf(r.incomeResult)
           totalExpenses == TotalOf(expenseResult)
       IN req' = [req EXCEPT ![s] = Finished(r, Ok(
                    [totalIncome |-> totalIncome, totalExpenses |-> totalExpenses,
                     netProfit |-> totalIncome - totalExpenses,
                     period |-> [startDate |-> startDate, endDate |-> endDate]]))]
    /\ UNCHANGED <<items, txns, nextItemId, nextTxnId, now, calls, client>>

----------------------------------------------------------------------------
\* Query results.

\* The orders in which the store may return a set of rows when the query's
\* ORDER BY, if any, does not decide between them: every sequence holding
\* each row once.
Orderings(rows) ==
    {q \in [1..Cardinality(rows) -> rows] :
        \A i, j \in 1..Cardinality(rows) : i # j => q[i] # q[j]}

\* results.map(item => ...): each row of a result converted for the caller.
ItemsOut(q) == [i \in 1..Len(q) |-> ItemOut(q[i])]

TxnsOut(q) == [i \in 1..Len(q) |-> TxnOut(q[i])]

----------------------------------------------------------------------------
\* getInventorySummary

\* Inputs of getInventorySummary as the caller sends them: with or without a
\* threshold.
InventoryReportInputs == { <<>>, [lowStockThreshold |-> 4], [lowStockThreshold |-> 5] }

\* .default(10): the threshold the handler receives for what the caller sent.
DefaultLowStockThreshold == 10
LowStockThreshold(raw) ==
    IF "lowStockThreshold" \in DOMAIN raw THEN raw.lowStockThreshold
    ELSE DefaultLowStockThreshold

\* The low stock condition with a strict comparison.
SelectLowStock_Strict(rows, threshold) == {i \in rows : i.quantity < threshold}

\* where quantity <= threshold
SelectLowStock(rows, threshold) == {i \in rows : i.quantity <= threshold}

RECURSIVE TotalValue_SellingPrice(_)
\* The items valued at their selling price.
TotalValue_SellingPrice(rows) ==
    IF rows = {} THEN 0
    ELSE LET i == CHOOSE x \in rows : TRUE
         IN i.quantity * parseFloat(i.sellingPrice) + TotalValue_SellingPrice(rows \ {i})

RECURSIVE TotalValue(_)
\* The sum over the rows of quantity * parseFloat(unitCost).
TotalValue(rows) ==
    IF rows = {} THEN 0
    ELSE LET i == CHOOSE x \in rows : TRUE
         IN i.quantity * parseFloat(i.unitCost) + TotalValue(rows \ {i})

CallGetInventorySummary(s) ==
    /\ req[s].pc = "idle"
    /\ calls' = calls + 1
    /\ \E raw \in InventoryReportInputs, v \in {1, 2} :
          req' = [req EXCEPT ![s] = Started("getInventorySummary", v, raw, "select_all")]
    /\ UNCHANGED <<items, txns, nextItemId, nextTxnId, now, client>>

\* Draft 1: select all items, then count them and total their value.
GetInventorySummaryAllTotals(s) ==
    /\ req[s].pc = "select_all"
    /\ req[s].op = "getInventorySummary"
    /\ req[s].variant = 1
    /\ LET r == req[s]
           allItems == items
       IN req' = [req EXCEPT ![s] =
                    [pc |-> "select_low", op |-> r.op, variant |-> r.variant,
                     input |-> r.input, pre |-> r.pre,
                     totalItems |-> Cardinality(allItems),
                     totalValue |-> TotalValue(allItems)]]
    /\ UNCHANGED <<items, txns, nextItemId, nextTxnId, now, calls, client>>

\* Draft 1: select the low stock items and convert them.
GetInventorySummaryLowStock(s) ==
    /\ req[s].pc = "select_low"
    /\ req[s].op = "getInventorySummary"
    /\ req[s].variant = 1
    /\ \E lowStockItems \in Orderings(SelectLowStock(items, LowStockThreshold(req[s].input))) :
          LET r == req[s]
          IN req' = [req EXCEPT ![s] = Finished(r, Ok(
                       [totalItems |-> r.totalItems, totalValue |-> r.totalValue,
                        lowStockItems |-> ItemsOut(lowStockItems),
                        lowStockThreshold |-> LowStockThreshold(r.input)]))]
    /\ UNCHANGED <<items, txns, nextItemId, nextTxnId, now, calls, client>>

\* Draft 2: select all items.
GetInventorySummaryAll(s) ==
    /\ req[s].pc = "select_all"
    /\ req[s].op = "getInventorySummary"
    /\ req[s].variant = 2
    /\ LET r == req[s]
       IN req' = [req EXCEPT ![s] =
                    [pc |-> "select_low", op |-> r.op, variant |-> r.variant,
                     input |-> r.input, pre |-> r.pre, allItems |-> items]]
    /\ UNCHANGED <<items, txns, nextItemId, nextTxnId, now, calls, client>>

\* Draft 2: select the low stock items, then total the value of all items
\* and convert the low stock items.
GetInventorySummaryLowStockTotals(s) ==
    /\ req[s].pc = "select_low"
    /\ req[s].op = "getInventorySummary"
    /\ req[s].variant = 2
    /\ \E lowStockItems \in Orderings(SelectLowStock(items, LowStockThreshold(req[s].input))) :
          LET r == req[s]
          IN req' = [req EXCEPT ![s] = Finished(r, Ok(
                       [totalItems |-> Cardinality(r.allItems),
                        totalValue |-> TotalValue(r.allItems),
                        lowStockItems |-> ItemsOut(lowStockItems),
                        lowStockThreshold |-> LowStockThreshold(r.input)]))]
    /\ UNCHANGED <<items, txns, nextItemId, nextTxnId, now, calls, client>>

----------------------------------------------------------------------------
\* getInventoryItems

\* The byte order of the item names the model uses.
NameRank(name) ==
    CASE name = "Another" -> 1
      [] name = "Gadget" -> 2
      [] name = "Renamed" -> 3
      [] name = "Sprocket" -> 4
      [] name = "Widget" -> 5
      [] OTHER -> 0

\* order by itemName asc
ByItemName(rows) ==
    {q \in Orderings(rows) :
        \A i, j \in 1..Len(q) : i < j => NameRank(q[i].itemName) <= NameRank(q[j].itemName)}

CallGetInventoryItems(s) ==
    /\ req[s].pc = "idle"
    /\ calls' = calls + 1
    /\ req' = [req EXCEPT ![s] = Started("getInventoryItems", 1, <<>>, "select")]
    /\ UNCHANGED <<items, txns, nextItemId, nextTxnId, now, client>>

GetInventoryItemsSelect(s) ==
    /\ req[s].pc = "select"
    /\ req[s].op = "getInventoryItems"
    /\ \E results \in ByItemName(items) :
          req' = [req EXCEPT ![s] = Finished(req[s], Ok(ItemsOut(results)))]
    /\ UNCHANGED <<items, txns, nextItemId, nextTxnId, now, calls, client>>

----------------------------------------------------------------------------
\* getTransactions

\* order by date desc, created_at desc
ByDateCreatedDesc(rows) ==
    {q \in Orderings(rows) :
        \A i, j \in 1..Len(q) : i < j =>
            \/ q[i].date > q[j].date
            \/ q[i].date = q[j].date /\ q[i].created_at >= q[j].created_at}

\* The transactions ordered by date, oldest first.
ByDateDesc_Ascending(rows) ==
    {q \in Orderings(rows) : \A i, j \in 1..Len(q) : i < j => q[i].date <= q[j].date}

\* order by date desc
ByDateDesc(rows) ==
    {q \in Orderings(rows) : \A i, j \in 1..Len(q) : i < j => q[i].date >= q[j].date}

CallGetTransactions(s) ==
    /\ req[s].pc = "idle"
    /\ calls' = calls + 1
    /\ \E v \in {1, 2} :
          req' = [req EXCEPT ![s] = Started("getTransactions", v, <<>>, "select")]
    /\ UNCHANGED <<items, txns, nextItemId, nextTxnId, now, client>>

\* Draft 1: ordered by date, then by creation time, both descending.
GetTransactionsSelectByDateCreated(s) ==
    /\ req[s].pc = "select"
    /\ req[s].op = "getTransactions"
    /\ req[s].variant = 1
    /\ \E results \in ByDateCreatedDesc(txns) :
          req' = [req EXCEPT ![s] = Finished(req[s], Ok(TxnsOut(results)))]
    /\ UNCHANGED <<items, txns, nextItemId, nextTxnId, now, calls, client>>

\* Draft 2: ordered by date descending.
GetTransactionsSelectByDate(s) ==
    /\ req[s].pc = "select"
    /\ req[s].op = "getTransactions"
    /\ req[s].variant = 2
    /\ \E results \in ByDateDesc(txns) :
          req' = [req EXCEPT ![s] = Finished(req[s], Ok(TxnsOut(results)))]
    /\ UNCHANGED <<items, txns, nextItemId, nextTxnId, now, calls, client>>

----------------------------------------------------------------------------
\* Input validation at the RPC boundary.  Every number the caller sends is
\* counted in thousandths here, quantities and thresholds too; the schemas'
\* int() admits the whole ones, which the handlers see counted in units.

ErrBadRequest == "BAD_REQUEST"

TransactionTypes == {"Income", "Expense"}
TransactionCategories ==
    {"Sales", "Rent", "Utilities", "Purchases", "Salaries", "Marketing", "Equipment",
     "Insurance", "Office Supplies", "Travel", "Other"}

\* z.number().int()
IsInt(x) == x % 1000 = 0

\* A call as received: the request record also keeps the input as sent.
Received(op, variant, sent, input, pc) ==
    [pc |-> pc, op |-> op, variant |-> variant, input |-> input,
     pre |-> [items |-> items, txns |-> txns, now |-> now, sent |-> sent]]

\* A call whose input the procedure's schema refuses: the procedure throws
\* BAD_REQUEST and the handler is not called.
Rejected(op, sent) ==
    [pc |-> "done", op |-> op, variant |-> 0, input |-> sent,
     pre |-> [items |-> items, txns |-> txns, now |-> now, sent |-> sent],
     out |-> Fail(ErrBadRequest)]

\* The fields of a transaction input that are present satisfy the schema.
ValidTransactionFields(x) ==
    /\ "description" \in DOMAIN x => x.description # ""
    /\ "amount" \in DOMAIN x => x.amount > 0
    /\ "type" \in DOMAIN x => x.type \in TransactionTypes
    /\ "category" \in DOMAIN x => x.category \in TransactionCategories

\* The item schema with nonnegative() in the place of positive().
ValidItemFields_ZeroPrice(x) ==
    /\ "itemName" \in DOMAIN x => x.itemName # ""
    /\ "sku" \in DOMAIN x => x.sku # ""
    /\ "quantity" \in DOMAIN x => IsInt(x.quantity) /\ x.quantity >= 0
    /\ "unitCost" \in DOMAIN x => x.unitCost >= 0
    /\ "sellingPrice" \in DOMAIN x => x.sellingPrice >= 0

\* The fields of an item input that are present satisfy the schema.
ValidItemFields(x) ==
    /\ "itemName" \in DOMAIN x => x.itemName # ""
    /\ "sku" \in DOMAIN x => x.sku # ""
    /\ "quantity" \in DOMAIN x => IsInt(x.quantity) /\ x.quantity >= 0
    /\ "unitCost" \in DOMAIN x => x.unitCost >= 0
    /\ "sellingPrice" \in DOMAIN x => x.sellingPrice > 0

\* z.number().int().positive().default(10)
ValidInventoryReportInput(x) ==
    "lowStockThreshold" \in DOMAIN x => IsInt(x.lowStockThreshold) /\ x.lowStockThreshold > 0

\* The whole numbers of an admitted input counted in units.
InUnits(x) ==
    [f \in DOMAIN x |-> IF f \in {"quantity", "lowStockThreshold"} THEN x[f] \div 1000 ELSE x[f]]

\* What the caller sends for an input whose whole numbers are counted in
\* units.
InThousandths(x) ==
    [f \in DOMAIN x |-> IF f \in {"quantity", "lowStockThreshold"} THEN x[f] * 1000 ELSE x[f]]

\* What callers send besides the inputs above: amounts and prices of 0, of
\* less, and of less than half a hundredth, quantities below 0 and not
\* whole, empty texts, types and categories that do not exist.
SentTxnFields ==
    { [amount |-> 0], [amount |-> -1000], [amount |-> 4], [description |-> ""],
      [type |-> "Refund"], [category |-> "Gifts"] }

SentItemFields ==
    { [quantity |-> -1000], [quantity |-> 2500], [unitCost |-> -10], [sellingPrice |-> 0],
      [sellingPrice |-> 4], [itemName |-> ""], [sku |-> ""] }

\* The record a with the fields of b in the place of its own.
Override(a, b) == [f \in DOMAIN a |-> IF f \in DOMAIN b THEN b[f] ELSE a[f]]

\* The inputs of the creates as sent: the inputs above, and one of them
\* with each of these fields in the place of its own.
SentTxnInputs ==
    TxnInputs \cup {Override(CHOOSE i \in TxnInputs : i.type = "Income", f) : f \in SentTxnFields}

SentItemInputs ==
    {InThousandths(i) : i \in ItemInputs}
        \cup {Override(InThousandths(CHOOSE i \in ItemInputs : i.sku = "C"), f) : f \in SentItemFields}

\* createTransaction behind its input schema.
ReceiveCreateTransaction(s) ==
    /\ req[s].pc = "idle"
    /\ calls' = calls + 1
    /\ \E sent \in SentTxnInputs :
          req' = [req EXCEPT ![s] =
                IF ValidTransactionFields(sent)
                THEN Received("createTransaction", 1, sent, sent, "insert")
                ELSE Rejected("createTransaction", sent)]
    /\ UNCHANGED <<items, txns, nextItemId, nextTxnId, now, client>>

\* updateTransaction behind its input schema.
ReceiveUpdateTransaction(s) ==
    /\ req[s].pc = "idle"
    /\ calls' = calls + 1
    /\ \E id \in Ids, patch \in TxnPatches \cup SentTxnFields, v \in {1, 2} :
          LET sent == [id |-> id, patch |-> patch]
              r == Received("updateTransaction", v, sent, sent,
                            IF v = 1 THEN "select_id" ELSE "update")
          IN req' = [req EXCEPT ![s] =
                IF ~ValidTransactionFields(patch) THEN Rejected("updateTransaction", sent)
                ELSE IF v = 2 /\ NoValuesToSet(TxnUpdateValues(sent))
                     THEN Finished(r, Fail(ErrNoValuesToSet))
                ELSE r]
    /\ UNCHANGED <<items, txns, nextItemId, nextTxnId, now, client>>

\* createInventoryItem behind its input schema.
ReceiveCreateInventoryItem(s) ==
    /\ req[s].pc = "idle"
    /\ calls' = calls + 1
    /\ \E sent \in SentItemInputs, v \in {1, 2} :
          req' = [req EXCEPT ![s] =
                IF ValidItemFields(sent)
                THEN Received("createInventoryItem", v, sent, InUnits(sent),
                              IF v = 1 THEN "select_sku" ELSE "insert")
                ELSE Rejected("createInventoryItem", sent)]
    /\ UNCHANGED <<items, txns, nextItemId, nextTxnId, now, client>>

\* updateInventoryItem behind its input schema.
ReceiveUpdateInventoryItem(s) ==
    /\ req[s].pc = "idle"
    /\ calls' = calls + 1
    /\ \E id \in Ids, patch \in {InThousandths(p) : p \in ItemPatches} \cup SentItemFields,
          v \in {1, 2} :
          LET sent == [id |-> id, patch |-> patch]
          IN req' = [req EXCEPT ![s] =
                IF ValidItemFields(patch)
                THEN Received("updateInventoryItem", v, sent,
                              [id |-> id, patch |-> InUnits(patch)],
                              IF v = 1 THEN "select_id" ELSE "update")
                ELSE Rejected("updateInventoryItem", sent)]
    /\ UNCHANGED <<items, txns, nextItemId, nextTxnId, now, client>>

\* getInventorySummary behind its input schema.
ReceiveGetInventorySummary(s) ==
    /\ req[s].pc = "idle"
    /\ calls' = calls + 1
    /\ \E sent \in {InThousandths(x) : x \in InventoryReportInputs}
                      \cup {[lowStockThreshold |-> 0], [lowStockThreshold |-> 2500]},
          v \in {1, 2} :
          req' = [req EXCEPT ![s] =
                IF ValidInventoryReportInput(sent)
                THEN Received("getInventorySummary", v, sent, InUnits(sent), "select_all")
                ELSE Rejected("getInventorySummary", sent)]
    /\ UNCHANGED <<items, txns, nextItemId, nextTxnId, now, client>>

----------------------------------------------------------------------------
\* The client: one of the components InventoryManager and TransactionManager,
\* its state (the local list, isLoading, the record being edited) and, for
\* each slot, the handler that is waiting for the request in it.

NoHandler == [kind |-> "none"]

\* Before the component is mounted: useState([]), useState(false),
\* useState(null).
Unmounted ==
    [component |-> "none", list |-> <<>>, isLoading |-> FALSE, editing |-> 0,
     handler |-> [s \in Slots |-> NoHandler]]

----------------------------------------------------------------------------
\* The records a populated store starts with.
SeedItem(k) ==
    IF k = 1
    THEN [itemName |-> "Widget", sku |-> "A", quantity |-> 5, unitCost |-> 10000, sellingPrice |-> 15990]
    ELSE [itemName |-> "Gadget", sku |-> "B", quantity |-> 5, unitCost |-> 12345, sellingPrice |-> 25678]

SeedTxn(k) ==
    IF k = 1
    THEN [date |-> [str |-> "2024-01-15"], description |-> "Sale", amount |-> 100500,
          type |-> "Income", category |-> "Sales"]
    ELSE [date |-> [date |-> 32], description |-> "Rent", amount |-> 123457,
          type |-> "Expense", category |-> "Rent"]

\* The store starts empty, or holding the records that two creates of each
\* kind leave in it.
Init ==
    /\ \E n \in {0, 2} :
          /\ items = {InsertedItem(ItemValues(SeedItem(k)), k, 0) : k \in 1..n}
          /\ txns = {InsertedTxn(TxnValues(SeedTxn(k)), k, 0) : k \in 1..n}
          /\ nextItemId = n + 1
          /\ nextTxnId = n + 1
    /\ now = 0
    /\ req = [s \in Slots |-> Idle]
    /\ calls = 0
    /\ client = Unmounted

\* The caller receives the response.
Return(s) ==
    /\ req[s].pc = "done"
    /\ req' = [req EXCEPT ![s] = Idle]
    /\ UNCHANGED <<items, txns, nextItemId, nextTxnId, now, calls, client>>

----------------------------------------------------------------------------
\* A request for the inventory table arrives in slot s.
CallItems(s) ==
    \/ CallCreateInventoryItem(s)
    \/ CallUpdateInventoryItem(s)
    \/ CallDeleteInventoryItem(s)

\* A request for the transactions table arrives in slot s.
CallTxns(s) ==
    \/ CallCreateTransaction(s)
    \/ CallUpdateTransaction(s)
    \/ CallDeleteTransaction(s)

Call(s) == CallItems(s) \/ CallTxns(s)

\* The request in slot s makes its next store access, or is answered.
WorkItems(s) ==
    \/ CreateItemSelectSku(s)
    \/ CreateItemInsert(s)
    \/ CreateItemInsertCatch(s)
    \/ UpdateItemSelectId(s)
    \/ UpdateItemSelectConflict(s)
    \/ UpdateItemUpdate(s)
    \/ UpdateItemUpdateCatch(s)
    \/ DeleteItemDeleteReturning(s)
    \/ DeleteItemSelectId(s)
    \/ DeleteItemDelete(s)
    \/ Return(s)

WorkTxns(s) ==
    \/ CreateTxnInsert(s)
    \/ UpdateTxnSelectId(s)
    \/ UpdateTxnUpdate(s)
    \/ UpdateTxnUpdateReturning(s)
    \/ DeleteTxnDelete(s)
    \/ Return(s)

Work(s) == WorkItems(s) \/ WorkTxns(s)

\* Requests are served concurrently: any slot may take the next step.  The
\* second slot is taken only while the first is occupied.  Time passes
\* between steps; a step that reads the clock sees how far.
Next ==
    \/ (calls < MaxConcurrentCalls /\ Call(1))
    \/ (calls < MaxConcurrentCalls /\ req[1].pc # "idle" /\ Call(2))
    \/ Work(1)
    \/ Work(2)

Spec == Init /\ [][Next]_vars

\* The concurrent requests on the inventory table alone.
NextItems ==
    \/ (calls < MaxConcurrentCalls /\ CallItems(1))
    \/ (calls < MaxConcurrentCalls /\ req[1].pc # "idle" /\ CallItems(2))
    \/ WorkItems(1)
    \/ WorkItems(2)

SpecItems == Init /\ [][NextItems]_vars

\* The concurrent requests on the transactions table alone.
NextTxns ==
    \/ (calls < MaxConcurrentCalls /\ CallTxns(1))
    \/ (calls < MaxConcurrentCalls /\ req[1].pc # "idle" /\ CallTxns(2))
    \/ WorkTxns(1)
    \/ WorkTxns(2)

SpecTxns == Init /\ [][NextTxns]_vars

\* One request at a time.
NextSeq ==
    \/ (calls < MaxCalls /\ Call(1))
    \/ Work(1)

SpecSeq == Init /\ [][NextSeq]_vars

\* A report or a list is requested in slot s.
CallReads(s) ==
    \/ CallGetFinancialSummary(s)
    \/ CallGetInventorySummary(s)
    \/ CallGetTransactions(s)
    \/ CallGetInventoryItems(s)

\* The report or list in slot s makes its next query, or is answered.
WorkReads(s) ==
    \/ GetFinancialSummaryIncome(s)
    \/ GetFinancialSummaryExpense(s)
    \/ GetInventorySummaryAllTotals(s)
    \/ GetInventorySummaryLowStock(s)
    \/ GetInventorySummaryAll(s)
    \/ GetInventorySummaryLowStockTotals(s)
    \/ GetTransactionsSelectByDateCreated(s)
    \/ GetTransactionsSelectByDate(s)
    \/ GetInventoryItemsSelect(s)
    \/ Return(s)

\* One request at a time, reports and lists among them.
NextReadSeq ==
    \/ (calls < MaxCalls /\ Call(1))
    \/ (calls < MaxCalls /\ CallReads(1))
    \/ Work(1)
    \/ WorkReads(1)

SpecReadSeq == Init /\ [][NextReadSeq]_vars

\* The financial summary's queries.
WorkFinancialSummary(s) ==
    \/ GetFinancialSummaryIncome(s)
    \/ GetFinancialSummaryExpense(s)

\* The transactions table's requests and the financial summary, one request
\* at a time; the answer of the request before stays in the other slot.
NextLedger ==
    \/ (calls < MaxCalls /\ req[2].pc \in {"idle", "done"}
           /\ (CallTxns(1) \/ CallGetFinancialSummary(1)))
    \/ (calls < MaxCalls /\ req[1].pc = "done"
           /\ (CallTxns(2) \/ CallGetFinancialSummary(2)))
    \/ WorkTxns(1) \/ WorkFinancialSummary(1)
    \/ WorkTxns(2) \/ WorkFinancialSummary(2)

SpecLedger == Init /\ [][NextLedger]_vars

\* Reports and lists served concurrently with the requests that write.
NextReports ==
    \/ (calls < MaxConcurrentCalls /\ (Call(1) \/ CallReads(1)))
    \/ (calls < MaxConcurrentCalls /\ req[1].pc # "idle" /\ (Call(2) \/ CallReads(2)))
    \/ Work(1) \/ WorkReads(1)
    \/ Work(2) \/ WorkReads(2)

SpecReports == Init /\ [][NextReports]_vars

\* A request arrives in slot s through the procedure's input schema; the
\* procedures that take an id, a date range or nothing admit what the
\* callers of the model send.
Receive(s) ==
    \/ ReceiveCreateTransaction(s)
    \/ ReceiveUpdateTransaction(s)
    \/ ReceiveCreateInventoryItem(s)
    \/ ReceiveUpdateInventoryItem(s)
    \/ ReceiveGetInventorySummary(s)
    \/ CallDeleteTransaction(s)
    \/ CallDeleteInventoryItem(s)

\* The handlers behind the schemas.
WorkReceived(s) ==
    \/ Work(s)
    \/ GetInventorySummaryAllTotals(s)
    \/ GetInventorySummaryLowStock(s)
    \/ GetInventorySummaryAll(s)
    \/ GetInventorySummaryLowStockTotals(s)

\* One request at a time, each through its input schema.
NextRpc ==
    \/ (calls < MaxCalls /\ Receive(1))
    \/ WorkReceived(1)

SpecRpc == Init /\ [][NextRpc]_vars

\* The requests that add and remove records, on both tables, served
\* concurrently.
CallCreateDelete(s) ==
    \/ CallCreateInventoryItem(s)
    \/ CallCreateTransaction(s)
    \/ CallDeleteInventoryItem(s)
    \/ CallDeleteTransaction(s)

WorkCreateDelete(s) ==
    \/ CreateItemSelectSku(s)
    \/ CreateItemInsert(s)
    \/ CreateItemInsertCatch(s)
    \/ CreateTxnInsert(s)
    \/ DeleteItemDeleteReturning(s)
    \/ DeleteItemSelectId(s)
    \/ DeleteItemDelete(s)
    \/ DeleteTxnDelete(s)
    \/ Return(s)

NextCreateDelete ==
    \/ (calls < MaxCalls /\ CallCreateDelete(1))
    \/ (calls < MaxCalls /\ req[1].pc # "idle" /\ CallCreateDelete(2))
    \/ WorkCreateDelete(1)
    \/ WorkCreateDelete(2)

SpecCreateDelete == Init /\ [][NextCreateDelete]_vars

\* Two update requests, one in each slot, served concurrently; neither slot
\* is taken again.
CallUpdate(s) ==
    \/ CallUpdateInventoryItem(s)
    \/ CallUpdateTransaction(s)

WorkUpdate(s) ==
    \/ UpdateItemSelectId(s)
    \/ UpdateItemSelectConflict(s)
    \/ UpdateItemUpdate(s)
    \/ UpdateItemUpdateCatch(s)
    \/ UpdateTxnSelectId(s)
    \/ UpdateTxnUpdate(s)
    \/ UpdateTxnUpdateReturning(s)

NextUpdatePair ==
    \/ (calls < MaxConcurrentCalls /\ CallUpdate(1))
    \/ (calls < MaxConcurrentCalls /\ CallUpdate(2))
    \/ WorkUpdate(1)
    \/ WorkUpdate(2)

SpecUpdatePair == Init /\ [][NextUpdatePair]_vars

----------------------------------------------------------------------------
\* The client components.

Components == {"InventoryManager", "TransactionManager"}

\* The submit buttons carrying no disabled attribute.
SubmitEnabled_Always(c) == TRUE

\* <Button type="submit" disabled={isLoading}>
SubmitEnabled(c) == ~c.isLoading

\* The handlers that have not sent their request yet.
Unsent == {s \in Slots : client.handler[s] # NoHandler /\ req[s].pc = "idle"}

\* A handler can start in slot s.
SlotFree(s) ==
    /\ client.component # "none"
    /\ client.handler[s] = NoHandler
    /\ req[s].pc = "idle"
    /\ calls + Cardinality(Unsent) < MaxCalls

\* setIsLoading(true) at the start of a handler that will wait in slot s.
Handling(s, h) == [client EXCEPT !.handler[s] = h, !.isLoading = TRUE]

\* The component mounts and its effect starts the initial load.
Mount(c) ==
    /\ client.component = "none"
    /\ client' = [Handling(1, [kind |-> "load"]) EXCEPT !.component = c]
    /\ UNCHANGED <<items, txns, nextItemId, nextTxnId, now, req, calls>>

\* handleCreateItem, handleCreateTransaction: the form is submitted.
HandleCreate(s) ==
    /\ SlotFree(s)
    /\ SubmitEnabled(client)
    /\ client' = Handling(s, [kind |-> "create"])
    /\ UNCHANGED <<items, txns, nextItemId, nextTxnId, now, req, calls>>

\* openEditDialog on a record of the list.
OpenEditDialog ==
    /\ \E i \in 1..Len(client.list) :
          /\ client.editing # client.list[i].id
          /\ client' = [client EXCEPT !.editing = client.list[i].id]
    /\ UNCHANGED <<items, txns, nextItemId, nextTxnId, now, req, calls>>

\* handleEditItem, handleEditTransaction: the form is submitted.
HandleEdit(s) ==
    /\ SlotFree(s)
    /\ client.editing # 0
    /\ SubmitEnabled(client)
    /\ client' = Handling(s, [kind |-> "edit", id |-> client.editing])
    /\ UNCHANGED <<items, txns, nextItemId, nextTxnId, now, req, calls>>

\* handleDeleteItem, handleDeleteTransaction: the button of a record of the
\* list is clicked and the question confirmed.
HandleDelete(s) ==
    /\ SlotFree(s)
    /\ \E i \in 1..Len(client.list) :
          client' = Handling(s, [kind |-> "delete", id |-> client.list[i].id])
    /\ UNCHANGED <<items, txns, nextItemId, nextTxnId, now, req, calls>>

\* The request of the handler waiting in slot s reaches the server.
SendRequest(s) ==
    LET h == client.handler[s]
        inventory == client.component = "InventoryManager"
    IN /\ s \in Unsent
       /\ \/ h.kind = "load" /\ inventory /\ CallGetInventoryItems(s)
          \/ h.kind = "load" /\ ~inventory /\ CallGetTransactions(s)
          \/ h.kind = "create" /\ inventory /\ CallCreateInventoryItem(s)
          \/ h.kind = "create" /\ ~inventory /\ CallCreateTransaction(s)
          \/ h.kind = "edit" /\ inventory /\ CallUpdateInventoryItem(s)
               /\ req'[s].input.id = h.id
          \/ h.kind = "edit" /\ ~inventory /\ CallUpdateTransaction(s)
               /\ req'[s].input.id = h.id
          \/ h.kind = "delete" /\ inventory /\ CallDeleteInventoryItem(s)
               /\ req'[s].input.id = h.id
          \/ h.kind = "delete" /\ ~inventory /\ CallDeleteTransaction(s)
               /\ req'[s].input.id = h.id

\* The list after the handler h has received the response out.
ListAfter(c, h, out) ==
    IF ~out.ok THEN c.list
    ELSE CASE h.kind = "load" -> out.value
           [] h.kind = "create" ->
                IF c.component = "InventoryManager" THEN Append(c.list, out.value)
                ELSE <<out.value>> \o c.list
           [] h.kind = "edit" ->
                [i \in 1..Len(c.list) |->
                    IF c.list[i].id = out.value.id THEN out.value ELSE c.list[i]]
           [] h.kind = "delete" ->
                SelectSeq(c.list, LAMBDA x : x.id # h.id)

\* The response arrives: the handler waiting in slot s updates the list,
\* closes the edit dialog after a successful edit, and in its finally
\* clause does setIsLoading(false).
Respond(s) ==
    /\ req[s].pc = "done"
    /\ client.handler[s] # NoHandler
    /\ LET h == client.handler[s]
           out == req[s].out
       IN client' = [client EXCEPT
                        !.list = ListAfter(client, h, out),
                        !.editing = IF h.kind = "edit" /\ out.ok THEN 0 ELSE @,
                        !.isLoading = FALSE,
                        !.handler[s] = NoHandler]
    /\ req' = [req EXCEPT ![s] = Idle]
    /\ UNCHANGED <<items, txns, nextItemId, nextTxnId, now, calls>>

\* The server's steps on the requests of the client.
ServeClient(s) ==
    \/ CreateItemSelectSku(s)
    \/ CreateItemInsert(s)
    \/ CreateItemInsertCatch(s)
    \/ CreateTxnInsert(s)
    \/ DeleteItemDeleteReturning(s)
    \/ DeleteItemSelectId(s)
    \/ DeleteItemDelete(s)
    \/ DeleteTxnDelete(s)
    \/ WorkUpdate(s)
    \/ GetInventoryItemsSelect(s)
    \/ GetTransactionsSelectByDateCreated(s)
    \/ GetTransactionsSelectByDate(s)

\* One client, no other writer: a component mounts, and its handlers run as
\* the user acts; responses arrive in any order.
NextClient ==
    \/ \E c \in Components : Mount(c)
    \/ OpenEditDialog
    \/ \E s \in Slots :
          \/ HandleCreate(s)
          \/ HandleEdit(s)
          \/ HandleDelete(s)
          \/ SendRequest(s)
          \/ ServeClient(s)
          \/ Respond(s)

SpecClient == Init /\ [][NextClient]_vars

----------------------------------------------------------------------------
\* Vocabulary of the properties.

\* The failure classes callers tell apart by message: /not found/i and
\* /already exists/i.
IsNotFound(m) == m \in {ErrItemIdNotFound, ErrItemNotFound, ErrTxnIdNotFound, ErrTxnNotFound}
IsConflict(m) == m \in {ErrItemSkuExists, ErrSkuExists, ErrSkuExistsOther}

Done(s) == req[s].pc = "done"
DoneOp(s, op) == Done(s) /\ req[s].op = op
Failed(s) == Done(s) /\ ~req[s].out.ok
Succeeded(s) == Done(s) /\ req[s].out.ok

\* The SKU a create or an update would write, "" when it writes none.
WrittenSku(r) ==
    IF r.op = "createInventoryItem" THEN r.input.sku
    ELSE IF r.op = "updateInventoryItem" /\ "sku" \in DOMAIN r.input.patch THEN r.input.patch.sku
    ELSE ""

\* The tables a request works on, before the call and now.
IsTxnOp(r) == r.op \in {"createTransaction", "updateTransaction", "deleteTransaction"}
Before(r) == IF IsTxnOp(r) THEN r.pre.txns ELSE r.pre.items
After(r) == IF IsTxnOp(r) THEN txns ELSE items
OtherTableSame(r) == IF IsTxnOp(r) THEN items = r.pre.items ELSE txns = r.pre.txns
WithId(rows, id) == {x \in rows : x.id = id}
TheRow(rows, id) == CHOOSE x \in rows : x.id = id

IsUpdate(r) == r.op \in {"updateTransaction", "updateInventoryItem"}
IsDelete(r) == r.op \in {"deleteTransaction", "deleteInventoryItem"}
DecimalFields == {"amount", "unitCost", "sellingPrice"}

\* The stored hundredths c are the thousandths x rounded to the nearest
\* hundredth.
RoundsTo(x, c) == 10 * c - 5 <= x /\ x < 10 * c + 5

----------------------------------------------------------------------------
\* C1: in every reachable state, whatever the interleaving of creates,
\* updates and deletes, no two stored inventory items have the same SKU.
C1_SkuUnique == \A i, j \in items : i.sku = j.sku => i = j

\* Two interleaved creates of the same SKU have both reached the store: one
\* row was written and the other write was rejected.
C1_Witness ==
    /\ DoneOp(1, "createInventoryItem") /\ DoneOp(2, "createInventoryItem")
    /\ req[1].input.sku = req[2].input.sku
    /\ \E s \in Slots : Failed(s) /\ req[s].out.error = PgUniqueViolation
    /\ \E i \in items : i.sku = req[1].input.sku

\* C2: createInventoryItem with the SKU of a stored item fails with Conflict;
\* with a SKU no stored item has it succeeds, and the store then holds the
\* items it held plus the new one.
C2_CreateSkuConflict ==
    \A s \in Slots : DoneOp(s, "createInventoryItem") =>
        LET r == req[s]
        IN IF \E i \in r.pre.items : i.sku = r.input.sku
           THEN ~r.out.ok /\ IsConflict(r.out.error)
           ELSE /\ r.out.ok
                /\ r.pre.items \subseteq items
                /\ Cardinality(items) = Cardinality(r.pre.items) + 1
                /\ \E i \in items \ r.pre.items : i.sku = r.input.sku /\ i.id = r.out.value.id

\* A create by the insert-only draft was refused for a stored SKU.
C2_Witness ==
    \E s \in Slots :
        /\ DoneOp(s, "createInventoryItem") /\ req[s].variant = 2
        /\ \E i \in req[s].pre.items : i.sku = req[s].input.sku
        /\ Failed(s)

\* C3: when two operations that would give two different items the same SKU
\* interleave (neither started after the other's write), exactly one
\* succeeds and the other fails with Conflict.
C3_RaceReportedAsConflict ==
    LET a == req[1]
        b == req[2]
        Writes(r) == r.op \in {"createInventoryItem", "updateInventoryItem"} /\ WrittenSku(r) # ""
        Fresh(r, sku) ==
            /\ \A i \in r.pre.items : i.sku # sku
            /\ r.op = "updateInventoryItem" =>
                  ItemById(r.pre.items, r.input.id) # {} /\ ItemById(items, r.input.id) # {}
        Distinct ==
            ~(a.op = "updateInventoryItem" /\ b.op = "updateInventoryItem" /\ a.input.id = b.input.id)
    IN (/\ Done(1) /\ Done(2)
        /\ Writes(a) /\ Writes(b)
        /\ WrittenSku(a) = WrittenSku(b)
        /\ Distinct
        /\ Fresh(a, WrittenSku(a)) /\ Fresh(b, WrittenSku(b)))
       => \/ a.out.ok /\ ~b.out.ok /\ IsConflict(b.out.error)
          \/ b.out.ok /\ ~a.out.ok /\ IsConflict(a.out.error)

\* C4: a create, update or delete that fails leaves both tables exactly as
\* they were before the call.
C4_FailureChangesNothing ==
    \A s \in Slots : Failed(s) => items = req[s].pre.items /\ txns = req[s].pre.txns

\* An update was refused for a SKU conflict on a populated store.
C4_Witness ==
    \E s \in Slots :
        /\ DoneOp(s, "updateInventoryItem") /\ Failed(s)
        /\ IsConflict(req[s].out.error)
        /\ req[s].pre.items # {} /\ req[s].pre.txns # {}

\* C5: updateTransaction and updateInventoryItem with an id that matches no
\* stored record fail with NotFound, whatever the other fields of the input.
C5_UpdateUnknownIdNotFound ==
    \A s \in Slots : (Done(s) /\ IsUpdate(req[s]) /\ WithId(Before(req[s]), req[s].input.id) = {})
        => ~req[s].out.ok /\ IsNotFound(req[s].out.error)

\* C6: updateInventoryItem with the SKU of a different stored item fails with
\* Conflict; with the target's own SKU it succeeds and the other supplied
\* fields are applied.
C6_UpdateSkuConflict ==
    \A s \in Slots :
        (/\ DoneOp(s, "updateInventoryItem")
         /\ WithId(req[s].pre.items, req[s].input.id) # {}
         /\ "sku" \in DOMAIN req[s].input.patch) =>
        LET r == req[s]
            patch == r.input.patch
            old == TheRow(r.pre.items, r.input.id)
        IN /\ (\E i \in r.pre.items : i.id # old.id /\ i.sku = patch.sku)
                => ~r.out.ok /\ IsConflict(r.out.error)
           /\ patch.sku = old.sku =>
                /\ r.out.ok
                /\ WithId(items, old.id) # {}
                /\ LET new == TheRow(items, old.id)
                   IN \A f \in DOMAIN patch :
                        IF f \in DecimalFields THEN RoundsTo(patch[f], new[f])
                        ELSE new[f] = patch[f]

\* An update that names the target's own SKU and another field went through
\* while a second item was stored.
C6_Witness ==
    \E s \in Slots :
        /\ DoneOp(s, "updateInventoryItem") /\ Succeeded(s)
        /\ DOMAIN req[s].input.patch = {"sku", "itemName"}
        /\ Cardinality(req[s].pre.items) = 2
        /\ \E i \in req[s].pre.items : i.id = req[s].input.id /\ i.sku = req[s].input.patch.sku
        /\ \E i \in items : i.id = req[s].input.id /\ i.itemName = req[s].input.patch.itemName

\* C7 as stated: a successful update sets exactly the fields present in the
\* input to the supplied values; every other field of the record keeps its
\* value, and every other record is unchanged.
C7_UpdateSetsExactlySupplied ==
    \A s \in Slots : (Succeeded(s) /\ IsUpdate(req[s])) =>
        LET r == req[s]
            patch == r.input.patch
            old == TheRow(Before(r), r.input.id)
            new == TheRow(After(r), r.input.id)
        IN /\ WithId(After(r), r.input.id) # {}
           /\ \A f \in DOMAIN new :
                IF f \in DOMAIN patch
                THEN IF f \in DecimalFields THEN new[f] * 10 = patch[f]
                     ELSE IF f = "date" THEN new[f] = ToDate(patch[f])
                     ELSE new[f] = patch[f]
                ELSE new[f] = old[f]
           /\ After(r) \ {new} = Before(r) \ {old}
           /\ OtherTableSame(r)

\* C7 amended: the decimal fields present in the input are stored rounded
\* to the nearest hundredth, and an inventory item's updated_at is set to
\* the time of the update; for the rest as stated.
C7_UpdateSetsSuppliedRounded ==
    \A s \in Slots : (Succeeded(s) /\ IsUpdate(req[s])) =>
        LET r == req[s]
            patch == r.input.patch
            old == TheRow(Before(r), r.input.id)
            new == TheRow(After(r), r.input.id)
        IN /\ WithId(After(r), r.input.id) # {}
           /\ DOMAIN new = DOMAIN old
           /\ \A f \in DOMAIN new :
                IF f \in DOMAIN patch
                THEN IF f \in DecimalFields THEN RoundsTo(patch[f], new[f])
                     ELSE IF f = "date" THEN new[f] = ToDate(patch[f])
                     ELSE new[f] = patch[f]
                ELSE IF f = "updated_at" THEN r.pre.now <= new[f] /\ new[f] <= now
                ELSE new[f] = old[f]
           /\ After(r) \ {new} = Before(r) \ {old}
           /\ OtherTableSame(r)

\* A transaction was updated with a description and an amount of three
\* fractional digits while another transaction was stored.
C7_Witness ==
    \E s \in Slots :
        /\ DoneOp(s, "updateTransaction") /\ Succeeded(s)
        /\ DOMAIN req[s].input.patch = {"description", "amount"}
        /\ Cardinality(txns) = 2
        /\ \E t \in txns : t.id = req[s].input.id /\ t.description = req[s].input.patch.description

\* C8: an update whose input holds only the id of a stored record succeeds
\* and leaves every field of the record unchanged, except that an inventory
\* item's updated_at is set to the time of the update.
C8_EmptyUpdateSucceeds ==
    \A s \in Slots :
        (/\ Done(s) /\ IsUpdate(req[s])
         /\ DOMAIN req[s].input.patch = {}
         /\ WithId(Before(req[s]), req[s].input.id) # {}) =>
        LET r == req[s]
            old == TheRow(Before(r), r.input.id)
        IN /\ r.out.ok
           /\ WithId(After(r), r.input.id) # {}
           /\ LET new == TheRow(After(r), r.input.id)
              IN \A f \in DOMAIN new :
                    IF f = "updated_at" THEN r.pre.now <= new[f] /\ new[f] <= now
                    ELSE new[f] = old[f]

\* C9: a delete fails with NotFound when no stored record has the id, and
\* otherwise removes the record and returns {success: true}; so a second
\* delete of the same id finds nothing and fails with NotFound.
C9_DeleteNotFoundOrRemoves ==
    \A s \in Slots : (Done(s) /\ IsDelete(req[s])) =>
        LET r == req[s]
        IN IF WithId(Before(r), r.input.id) = {}
           THEN ~r.out.ok /\ IsNotFound(r.out.error)
           ELSE /\ r.out.ok
                /\ r.out.value = [success |-> TRUE]
                /\ WithId(After(r), r.input.id) = {}

\* A delete was refused for an id that had been assigned and deleted before.
C9_Witness ==
    \E s \in Slots :
        /\ DoneOp(s, "deleteTransaction") /\ Failed(s)
        /\ req[s].input.id < nextTxnId
        /\ calls >= 2

\* C10: a successful delete removes exactly the record with the given id:
\* every other record of the table is still stored unchanged, and the other
\* table is untouched.
C10_DeleteRemovesOnlyTarget ==
    \A s \in Slots : (Succeeded(s) /\ IsDelete(req[s])) =>
        LET r == req[s]
        IN /\ \A x \in Before(r) : x.id # r.input.id => x \in After(r)
           /\ \A x \in After(r) : x \in Before(r) /\ x.id # r.input.id
           /\ OtherTableSame(r)

\* An item was deleted from a store that held another item and transactions.
C10_Witness ==
    \E s \in Slots :
        /\ DoneOp(s, "deleteInventoryItem") /\ Succeeded(s)
        /\ Cardinality(req[s].pre.items) = 2
        /\ Cardinality(items) = 1
        /\ txns # {}

----------------------------------------------------------------------------
\* Vocabulary of the report properties.

\* The stored transactions of a type dated within [startDate, endDate].
InPeriod(rows, type, startDate, endDate) ==
    {t \in rows : t.type = type /\ ~(t.date < startDate) /\ ~(endDate < t.date)}

RECURSIVE AmountTotal(_)
\* The amounts of the rows added up, as a number in thousandths.
AmountTotal(rows) ==
    IF rows = {} THEN 0
    ELSE LET t == CHOOSE x \in rows : TRUE IN 10 * t.amount + AmountTotal(rows \ {t})

\* The totals of a summary are those of the table rows over its period.
TotalsOver(r, rows) ==
    LET startDate == ToDate(r.input.startDate)
        endDate == ToDate(r.input.endDate)
    IN /\ r.out.value.totalIncome = AmountTotal(InPeriod(rows, "Income", startDate, endDate))
       /\ r.out.value.totalExpenses = AmountTotal(InPeriod(rows, "Expense", startDate, endDate))

\* C11: getFinancialSummary returns as totalIncome the sum of the amounts of
\* the stored Income transactions dated from startDate to endDate, both
\* inclusive, as totalExpenses the same sum for Expense, as netProfit their
\* difference and as period the input range; transactions dated outside the
\* range count in neither total.
C11_FinancialSummaryTotals ==
    \A s \in Slots : DoneOp(s, "getFinancialSummary") =>
        LET r == req[s]
        IN /\ r.out.ok
           /\ TotalsOver(r, r.pre.txns)
           /\ r.out.value.netProfit = r.out.value.totalIncome - r.out.value.totalExpenses
           /\ r.out.value.period = [startDate |-> ToDate(r.input.startDate),
                                    endDate |-> ToDate(r.input.endDate)]

\* A summary counted a transaction dated on the last day of its range and
\* left out one dated before its first day.
C11_Witness ==
    \E s \in Slots :
        /\ DoneOp(s, "getFinancialSummary")
        /\ \E t \in req[s].pre.txns : t.date = ToDate(req[s].input.endDate)
        /\ \E t \in req[s].pre.txns : t.date < ToDate(req[s].input.startDate)
        /\ req[s].out.value.totalExpenses > 0
        /\ req[s].out.value.netProfit < 0

\* C12: getFinancialSummary returns 0 for totalIncome, totalExpenses and
\* netProfit, and does not fail, whenever no stored transaction is dated in
\* the range: on an empty store and on a range that starts after it ends
\* as well.
C12_FinancialSummaryZeros ==
    \A s \in Slots :
        (/\ DoneOp(s, "getFinancialSummary")
         /\ \A t \in req[s].pre.txns :
                t.date < ToDate(req[s].input.startDate) \/ ToDate(req[s].input.endDate) < t.date)
        => /\ req[s].out.ok
           /\ req[s].out.value.totalIncome = 0
           /\ req[s].out.value.totalExpenses = 0
           /\ req[s].out.value.netProfit = 0

\* A summary over a range that starts after it ends was answered on a store
\* that holds transactions.
C12_Witness ==
    \E s \in Slots :
        /\ DoneOp(s, "getFinancialSummary") /\ Succeeded(s)
        /\ ToDate(req[s].input.endDate) < ToDate(req[s].input.startDate)
        /\ req[s].pre.txns # {}

\* A summary in slot a began after the successful update or delete in slot
\* b had taken effect, and that write is the only change to the table since
\* b began: the other rows are as they were, and the row an update returned
\* is still in the table.
SummaryAfterWrite(a, b) ==
    /\ a # b
    /\ DoneOp(a, "getFinancialSummary")
    /\ Succeeded(b) /\ req[b].op \in {"updateTransaction", "deleteTransaction"}
    /\ WithId(req[b].pre.txns, req[b].input.id) # {}
    /\ req[a].pre.txns = txns
    /\ {t \in txns : t.id # req[b].input.id} = {t \in req[b].pre.txns : t.id # req[b].input.id}
    /\ req[b].op = "updateTransaction" =>
            \E t \in txns : t.id = req[b].input.id /\ TxnOut(t) = req[b].out.value

\* What a transaction adds to the total of a type over a period.
Contribution(type, date, amount, forType, r) ==
    IF type = forType /\ ToDate(r.input.startDate) <= date /\ date <= ToDate(r.input.endDate)
    THEN amount ELSE 0

\* C13: the next getFinancialSummary after an updateTransaction or a
\* deleteTransaction counts the transaction by the type, amount and date the
\* update gave it and not at all after a delete; nothing of what it
\* contributed before remains.
C13_CurrentValuesDecide ==
    \A a, b \in Slots : SummaryAfterWrite(a, b) =>
        LET r == req[a]
            w == req[b]
            old == TheRow(w.pre.txns, w.input.id)
            rest == {t \in w.pre.txns : t.id # w.input.id}
            startDate == ToDate(r.input.startDate)
            endDate == ToDate(r.input.endDate)
            Given(f) == w.op = "updateTransaction" /\ f \in DOMAIN w.input.patch
            type == IF Given("type") THEN w.input.patch.type ELSE old.type
            date == IF Given("date") THEN ToDate(w.input.patch.date) ELSE old.date
            amount == IF w.op = "deleteTransaction" THEN 0 ELSE w.out.value.amount
        IN /\ r.out.value.totalIncome =
                AmountTotal(InPeriod(rest, "Income", startDate, endDate))
                + Contribution(type, date, amount, "Income", r)
           /\ r.out.value.totalExpenses =
                AmountTotal(InPeriod(rest, "Expense", startDate, endDate))
                + Contribution(type, date, amount, "Expense", r)

\* A summary followed an update that turned an Income transaction of its
\* range into an Expense, and counted no income.
C13_Witness ==
    \E a, b \in Slots :
        /\ SummaryAfterWrite(a, b)
        /\ req[b].op = "updateTransaction"
        /\ "type" \in DOMAIN req[b].input.patch
        /\ TheRow(req[b].pre.txns, req[b].input.id).type = "Income"
        /\ req[b].input.patch.type = "Expense"
        /\ InPeriod(req[b].pre.txns, "Income", ToDate(req[a].input.startDate),
                    ToDate(req[a].input.endDate)) # {}
        /\ req[a].out.value.totalIncome = 0
        /\ req[a].out.value.totalExpenses > 0

RECURSIVE StockValue(_)
\* quantity x unitCost added up over the rows, as a number in thousandths.
StockValue(rows) ==
    IF rows = {} THEN 0
    ELSE LET i == CHOOSE x \in rows : TRUE
         IN 10 * i.unitCost * i.quantity + StockValue(rows \ {i})

\* The threshold a getInventorySummary call asks for.
ThresholdAsked(r) ==
    IF "lowStockThreshold" \in DOMAIN r.input THEN r.input.lowStockThreshold ELSE 10

\* C14: getInventorySummary returns as totalItems the number of stored
\* items and as totalValue the sum over all stored items of quantity x
\* unitCost, 0 and 0 on an empty store, whatever the threshold.
C14_InventorySummaryTotals ==
    \A s \in Slots : DoneOp(s, "getInventorySummary") =>
        LET r == req[s]
        IN /\ r.out.ok
           /\ r.out.value.totalItems = Cardinality(r.pre.items)
           /\ r.out.value.totalValue = StockValue(r.pre.items)
           /\ r.pre.items = {} => r.out.value.totalItems = 0 /\ r.out.value.totalValue = 0

\* A summary with a threshold below every stored quantity counted and
\* valued the items all the same.
C14_Witness ==
    \E s \in Slots :
        /\ DoneOp(s, "getInventorySummary")
        /\ Cardinality(req[s].pre.items) = 2
        /\ \A i \in req[s].pre.items : i.quantity > ThresholdAsked(req[s])
        /\ req[s].out.value.totalItems = 2
        /\ req[s].out.value.totalValue > 0
        /\ req[s].out.value.lowStockItems = <<>>

\* C15: lowStockItems holds exactly the stored items whose quantity is at
\* most the threshold, each once: an item with the threshold's quantity and
\* one with quantity 0 are in it, one with a quantity above is not; the
\* lowStockThreshold returned is the one asked for, 10 when none was.
C15_LowStockItems ==
    \A s \in Slots : DoneOp(s, "getInventorySummary") =>
        LET r == req[s]
            low == r.out.value.lowStockItems
            t == ThresholdAsked(r)
        IN /\ r.out.ok
           /\ r.out.value.lowStockThreshold = t
           /\ \A i \in r.pre.items :
                i.quantity <= t
                    <=> \E k \in 1..Len(low) : low[k].id = i.id /\ low[k].quantity = i.quantity
           /\ \A k \in 1..Len(low) : \E i \in r.pre.items : i.id = low[k].id
           /\ \A k, l \in 1..Len(low) : low[k].id = low[l].id => k = l

\* A summary listed an item of quantity 0 and left out an item whose
\* quantity is one above the threshold.
C15_Witness ==
    \E s \in Slots :
        /\ DoneOp(s, "getInventorySummary")
        /\ \E i \in req[s].pre.items : i.quantity = ThresholdAsked(req[s]) + 1
        /\ \E i \in req[s].pre.items : i.quantity = 0
        /\ Len(req[s].out.value.lowStockItems) = 1
        /\ req[s].out.value.lowStockItems[1].quantity = 0

IsRead(r) ==
    r.op \in {"getFinancialSummary", "getInventorySummary", "getTransactions", "getInventoryItems"}

\* Two answered reports or lists that both began on the same store.
ReadTwice(a, b) ==
    /\ a # b
    /\ Done(a) /\ IsRead(req[a])
    /\ Done(b) /\ IsRead(req[b])
    /\ req[a].pre.items = req[b].pre.items
    /\ req[a].pre.txns = req[b].pre.txns

\* C16: getFinancialSummary, getInventorySummary, getTransactions and
\* getInventoryItems leave both tables unchanged, and two calls with the
\* same parameters on an unchanged store return the same result.
C16_ReadsRepeatable ==
    \A a, b \in Slots : ReadTwice(a, b) =>
        /\ items = req[a].pre.items
        /\ txns = req[a].pre.txns
        /\ (req[a].op = req[b].op /\ req[a].variant = req[b].variant
              /\ req[a].input = req[b].input) => req[a].out = req[b].out

\* C17: each report is computed over one snapshot of the store, also when
\* writes interleave with its queries: getInventorySummary never lists more
\* lowStockItems than the totalItems it counted, and the totals of
\* getFinancialSummary are both those of one state the transactions table
\* was in during the call.  (With two calls made in all, the table was in
\* no other state during the call than the one the call began on and the
\* present one.)
C17_ReportsOverOneSnapshot ==
    \A s \in Slots :
        /\ DoneOp(s, "getInventorySummary") =>
                Len(req[s].out.value.lowStockItems) <= req[s].out.value.totalItems
        /\ (DoneOp(s, "getFinancialSummary") /\ calls = 2) =>
                \E rows \in {req[s].pre.txns, txns} : TotalsOver(req[s], rows)

\* The list holds each of the rows once, and nothing else.
EachOnce(list, rows) ==
    /\ Len(list) = Cardinality(rows)
    /\ \A x \in rows : \E k \in 1..Len(list) : list[k].id = x.id
    /\ \A k \in 1..Len(list) : \E x \in rows : x.id = list[k].id

\* C18: getInventoryItems returns every stored item once with itemName
\* non-decreasing along the list, getTransactions every stored transaction
\* once with date non-increasing along the list; both return the empty list
\* for an empty table.
C18_ListsCompleteAndOrdered ==
    \A s \in Slots :
        /\ DoneOp(s, "getInventoryItems") =>
              LET list == req[s].out.value
              IN /\ req[s].out.ok
                 /\ EachOnce(list, req[s].pre.items)
                 /\ \A k \in 1..(Len(list) - 1) :
                        NameRank(list[k].itemName) <= NameRank(list[k + 1].itemName)
                 /\ req[s].pre.items = {} => list = <<>>
        /\ DoneOp(s, "getTransactions") =>
              LET list == req[s].out.value
              IN /\ req[s].out.ok
                 /\ EachOnce(list, req[s].pre.txns)
                 /\ \A k \in 1..(Len(list) - 1) : list[k].date >= list[k + 1].date
                 /\ req[s].pre.txns = {} => list = <<>>

\* The transactions were listed, most recent first, after one had been
\* added to the two stored.
C18_Witness ==
    \E s \in Slots :
        /\ DoneOp(s, "getTransactions") /\ req[s].variant = 2
        /\ Len(req[s].out.value) = 3
        /\ req[s].out.value[1].date > req[s].out.value[3].date

\* The fields of an input as sent, for a create, an update or a report.
SentFields(r) == IF "patch" \in DOMAIN r.pre.sent THEN r.pre.sent.patch ELSE r.pre.sent

\* A number in thousandths that is not a whole number.
NotWhole(x) == (x \div 1000) * 1000 # x

\* The request's input as sent is malformed or out of range.
Malformed(r) ==
    LET x == SentFields(r)
        Bad(f, P(_)) == f \in DOMAIN x /\ P(x[f])
        Empty(v) == v = ""
    IN IF r.op \in {"createTransaction", "updateTransaction"}
       THEN \/ Bad("amount", LAMBDA v : v <= 0)
            \/ Bad("description", Empty)
            \/ Bad("type", LAMBDA v : v # "Income" /\ v # "Expense")
            \/ Bad("category", LAMBDA v : v \notin TransactionCategories)
       ELSE IF r.op \in {"createInventoryItem", "updateInventoryItem"}
       THEN \/ Bad("quantity", LAMBDA v : v < 0 \/ NotWhole(v))
            \/ Bad("unitCost", LAMBDA v : v < 0)
            \/ Bad("sellingPrice", LAMBDA v : v <= 0)
            \/ Bad("itemName", Empty)
            \/ Bad("sku", Empty)
       ELSE IF r.op = "getInventorySummary"
       THEN Bad("lowStockThreshold", LAMBDA v : v < 1000 \/ NotWhole(v))
       ELSE FALSE

\* C19: a request whose input is malformed or out of range fails with a
\* validation error before any store access: its handler takes no step,
\* on create and on update alike, and the store is unchanged.
C19_MalformedRejected ==
    \A s \in Slots :
        (req[s].pc # "idle" /\ "sent" \in DOMAIN req[s].pre /\ Malformed(req[s])) =>
            /\ Done(s)
            /\ ~req[s].out.ok /\ req[s].out.error = ErrBadRequest
            /\ items = req[s].pre.items
            /\ txns = req[s].pre.txns

\* An update that names a stored item and a selling price of 0 was
\* refused.
C19_Witness ==
    \E s \in Slots :
        /\ DoneOp(s, "updateInventoryItem")
        /\ req[s].out = Fail(ErrBadRequest)
        /\ WithId(items, req[s].pre.sent.id) # {}
        /\ req[s].pre.sent.patch = [sellingPrice |-> 0]

\* C20: every stored transaction amount is above 0, every stored selling
\* price is above 0, every stored unit cost is at least 0 and every stored
\* quantity is a whole number that is at least 0, the decimals being the
\* stored ones of two fractional digits.
C20_StoredMinimums ==
    /\ \A t \in txns : t.amount > 0
    /\ \A i \in items : i.sellingPrice > 0 /\ i.unitCost >= 0 /\ i.quantity \in Nat

----------------------------------------------------------------------------
\* Vocabulary of the create properties.

IsCreate(r) == r.op \in {"createTransaction", "createInventoryItem"}

\* The record a successful create in slot s added: the one with the id it
\* returned.
Created(s) == TheRow(After(req[s]), req[s].out.value.id)

\* The record added by the create in slot s is the only change to the
\* store, its id is new, its timestamps are of the time of the call, and
\* the record returned has the stored values.
CreateAddsOne(s) ==
    LET r == req[s]
        new == Created(s)
    IN /\ WithId(After(r), r.out.value.id) = {new}
       /\ After(r) \ {new} = Before(r)
       /\ WithId(Before(r), new.id) = {}
       /\ OtherTableSame(r)
       /\ DOMAIN new = DOMAIN r.input \cup
             (IF IsTxnOp(r) THEN {"id", "created_at"} ELSE {"id", "created_at", "updated_at"})
       /\ r.pre.now <= new.created_at /\ new.created_at <= now
       /\ ~IsTxnOp(r) => new.updated_at = new.created_at
       /\ DOMAIN r.out.value = DOMAIN new
       /\ \A f \in DOMAIN new :
             IF f \in DecimalFields THEN r.out.value[f] = 10 * new[f]
             ELSE r.out.value[f] = new[f]

\* C21 as stated: a successful create adds exactly one record and changes no
\* other; the added record carries the input's field values, a generated id
\* and its timestamps, and the record returned has the stored values.
C21_CreateAddsInputRecord ==
    \A s \in Slots : (Succeeded(s) /\ IsCreate(req[s])) =>
        /\ CreateAddsOne(s)
        /\ \A f \in DOMAIN req[s].input :
              IF f \in DecimalFields THEN 10 * Created(s)[f] = req[s].input[f]
              ELSE IF f = "date" THEN Created(s)[f] = ToDate(req[s].input[f])
              ELSE Created(s)[f] = req[s].input[f]

\* C21 amended: the decimal fields of the added record are the input's
\* rounded to the nearest hundredth; for the rest as stated.
C21_CreateAddsRoundedRecord ==
    \A s \in Slots : (Succeeded(s) /\ IsCreate(req[s])) =>
        /\ CreateAddsOne(s)
        /\ \A f \in DOMAIN req[s].input :
              IF f \in DecimalFields THEN RoundsTo(req[s].input[f], Created(s)[f])
              ELSE IF f = "date" THEN Created(s)[f] = ToDate(req[s].input[f])
              ELSE Created(s)[f] = req[s].input[f]

\* An inventory item with a unit cost of three fractional digits was created
\* in a store that held other items.
C21_Witness ==
    \E s \in Slots :
        /\ DoneOp(s, "createInventoryItem") /\ Succeeded(s)
        /\ req[s].input.unitCost = 15754
        /\ req[s].pre.items # {}
        /\ Cardinality(items) = Cardinality(req[s].pre.items) + 1

----------------------------------------------------------------------------
\* Vocabulary of the decimal properties.

\* The decimal fields a create or an update in slot s was given.
DecimalsGiven(r) ==
    IF IsCreate(r) THEN DOMAIN r.input \cap DecimalFields
    ELSE DOMAIN r.input.patch \cap DecimalFields

\* C22: a decimal written by a create or an update is stored and returned
\* rounded to the nearest hundredth, unchanged when it has at most 2
\* fractional digits; lists return the stored decimals and reports their
\* exact sums and products, without further rounding.
C22_TwoFractionalDigits ==
    \A s \in Slots :
        LET r == req[s]
        IN /\ (Succeeded(s) /\ (IsCreate(r) \/ IsUpdate(r))) =>
                \A f \in DecimalsGiven(r) :
                    LET x == IF IsCreate(r) THEN r.input[f] ELSE r.input.patch[f]
                        c == TheRow(After(r), r.out.value.id)[f]
                    IN /\ RoundsTo(x, c)
                       /\ r.out.value[f] = 10 * c
                       /\ (x \div 10) * 10 = x => r.out.value[f] = x
           /\ DoneOp(s, "getTransactions") =>
                \A i \in 1..Len(r.out.value) :
                    \E t \in txns : t.id = r.out.value[i].id
                                      /\ r.out.value[i].amount = 10 * t.amount
           /\ DoneOp(s, "getInventoryItems") =>
                \A i \in 1..Len(r.out.value) :
                    \E t \in items : /\ t.id = r.out.value[i].id
                                       /\ r.out.value[i].unitCost = 10 * t.unitCost
                                       /\ r.out.value[i].sellingPrice = 10 * t.sellingPrice
           /\ DoneOp(s, "getFinancialSummary") => TotalsOver(r, txns)
           /\ DoneOp(s, "getInventorySummary") =>
                r.out.value.totalValue = StockValue(items)

\* An update gave a unit cost whose third fractional digit is 5 and the item
\* is stored, and came back, with the hundredth above.
C22_Witness ==
    \E s \in Slots :
        /\ DoneOp(s, "updateInventoryItem") /\ Succeeded(s)
        /\ "unitCost" \in DOMAIN req[s].input.patch
        /\ req[s].input.patch.unitCost = 12345
        /\ req[s].out.value.unitCost = 12350
        /\ \E i \in items : i.id = req[s].input.id /\ i.unitCost = 1235

----------------------------------------------------------------------------
\* Vocabulary of the id properties.

\* The sequence that gives a create its id.
SequenceOf(r) == IF IsTxnOp(r) THEN nextTxnId ELSE nextItemId

\* No two stored records of a table share an id, and every id stored or
\* returned by a create is below the table's sequence.
IdsBelowSequence ==
    /\ \A t, u \in txns : t.id = u.id => t = u
    /\ \A i, j \in items : i.id = j.id => i = j
    /\ \A t \in txns : t.id < nextTxnId
    /\ \A i \in items : i.id < nextItemId
    /\ \A s \in Slots : (Succeeded(s) /\ IsCreate(req[s])) =>
            req[s].out.value.id < SequenceOf(req[s])

\* A create that succeeds in a step returns the value of the sequence, and
\* the sequences never go back.
CreateTakesNextId ==
    /\ nextTxnId' >= nextTxnId
    /\ nextItemId' >= nextItemId
    /\ \A s \in Slots :
          (/\ req[s].pc \notin {"idle", "done"}
           /\ IsCreate(req[s])
           /\ req'[s].pc = "done" /\ req'[s].out.ok) =>
              /\ req'[s].out.value.id = SequenceOf(req[s])
              /\ SequenceOf(req[s])' > SequenceOf(req[s])

\* C23: in every reachable state no two stored transactions share an id and
\* no two stored inventory items share an id, and each successful create
\* returns an id different from the id of every record created before it:
\* it returns the value of a sequence that is above every id given so far.
C23_IdsUnique == []IdsBelowSequence /\ [][CreateTakesNextId]_vars

\* Two creates on the same table, running at the same time, both succeeded.
C23_Witness ==
    /\ Succeeded(1) /\ Succeeded(2)
    /\ req[1].op = "createTransaction" /\ req[2].op = "createTransaction"
    /\ req[1].out.value.id # req[2].out.value.id
    /\ req[2].pre.txns = req[1].pre.txns

----------------------------------------------------------------------------
\* C24: every stored inventory item has updated_at >= created_at, and each
\* successful updateInventoryItem leaves the item's updated_at strictly
\* later than it was before the call and its created_at unchanged.
C24_UpdatedAtAdvances ==
    /\ \A i \in items : i.updated_at >= i.created_at
    /\ \A s \in Slots : (DoneOp(s, "updateInventoryItem") /\ Succeeded(s)) =>
          LET r == req[s]
              old == TheRow(r.pre.items, r.input.id)
              new == TheRow(items, r.input.id)
          IN /\ new.updated_at > old.updated_at
             /\ new.created_at = old.created_at

----------------------------------------------------------------------------
\* An updateInventoryItem whose id matched no stored item while its sku was
\* that of a stored one.
UnknownIdKnownSku(r) ==
    /\ r.op = "updateInventoryItem"
    /\ WithId(r.pre.items, r.input.id) = {}
    /\ "sku" \in DOMAIN r.input.patch
    /\ \E i \in r.pre.items : i.sku = r.input.patch.sku

\* C25: updateInventoryItem called with an id that matches no stored item
\* and a sku equal to a stored item's fails with NotFound, never with
\* Conflict, and writes nothing.
C25_NotFoundBeforeConflict ==
    \A s \in Slots : (Done(s) /\ UnknownIdKnownSku(req[s])) =>
        /\ Failed(s)
        /\ IsNotFound(req[s].out.error)
        /\ ~IsConflict(req[s].out.error)
        /\ items = req[s].pre.items
        /\ txns = req[s].pre.txns

\* The draft that has no check before its update answered such a call on a
\* store that held the SKU.
C25_Witness ==
    \E s \in Slots :
        /\ Done(s) /\ UnknownIdKnownSku(req[s])
        /\ req[s].variant = 2
        /\ req[s].pre.items # {}

----------------------------------------------------------------------------
\* Two delete calls for the same record, each begun while it was stored,
\* have both been answered.
DeletedTwice(a, b) ==
    /\ a # b
    /\ Done(a) /\ Done(b)
    /\ IsDelete(req[a]) /\ req[a].op = req[b].op
    /\ req[a].input.id = req[b].input.id
    /\ WithId(Before(req[a]), req[a].input.id) # {}
    /\ WithId(Before(req[b]), req[b].input.id) # {}

\* C26: for each stored record at most one delete call returns
\* {success: true}: of two interleaved deletes of the same id one succeeds
\* and the other fails with NotFound.
C26_OneDeleteSucceeds ==
    \A a, b \in Slots : DeletedTwice(a, b) =>
        \/ Succeeded(a) /\ Failed(b) /\ IsNotFound(req[b].out.error)
        \/ Succeeded(b) /\ Failed(a) /\ IsNotFound(req[a].out.error)

----------------------------------------------------------------------------
\* An update in slot a and a successful delete in slot b of the same record,
\* each begun while it was stored, have both been answered; the update names
\* a field, and no SKU that another item had.
UpdateRacedDelete(a, b) ==
    /\ Done(a) /\ IsUpdate(req[a])
    /\ Succeeded(b) /\ IsDelete(req[b])
    /\ IsTxnOp(req[a]) = IsTxnOp(req[b])
    /\ req[a].input.id = req[b].input.id
    /\ WithId(Before(req[a]), req[a].input.id) # {}
    /\ WithId(Before(req[b]), req[b].input.id) # {}
    /\ DOMAIN req[a].input.patch # {}
    /\ \A i \in req[a].pre.items \cup items : i.sku # WrittenSku(req[a])

\* C27: an update that races with a delete of the same id either is applied
\* before the delete and returns the updated record, or fails with NotFound,
\* as it does when the record is deleted between its existence check and
\* its write; the record is not recreated.
C27_UpdateOrNotFound ==
    \A a, b \in Slots : UpdateRacedDelete(a, b) =>
        /\ Succeeded(a) \/ (Failed(a) /\ IsNotFound(req[a].out.error))
        /\ WithId(After(req[a]), req[a].input.id) = {}

----------------------------------------------------------------------------
\* Two updates of the same stored record, patching disjoint sets of fields,
\* neither of them empty nor holding a SKU that another item has, have both
\* been answered.
PatchedApart(a, b) ==
    /\ a # b
    /\ Done(a) /\ Done(b)
    /\ IsUpdate(req[a]) /\ req[a].op = req[b].op
    /\ req[a].input.id = req[b].input.id
    /\ WithId(Before(req[a]), req[a].input.id) # {}
    /\ WithId(Before(req[b]), req[b].input.id) # {}
    /\ DOMAIN req[a].input.patch # {} /\ DOMAIN req[b].input.patch # {}
    /\ DOMAIN req[a].input.patch \cap DOMAIN req[b].input.patch = {}
    /\ \A r \in {req[a], req[b]} :
          \A i \in r.pre.items : i.sku = WrittenSku(r) => i.id = r.input.id

\* The stored record has the fields of the patch of r, decimals rounded.
HasPatchOf(row, r) ==
    \A f \in DOMAIN r.input.patch :
        IF f \in DecimalFields THEN RoundsTo(r.input.patch[f], row[f])
        ELSE IF f = "date" THEN row[f] = ToDate(r.input.patch[f])
        ELSE row[f] = r.input.patch[f]

----------------------------------------------------------------------------
\* C29: getTransactions returns the transactions of one date by created_at
\* descending, the most recently created first.
C29_SameDateByCreatedAt ==
    \A s \in Slots : DoneOp(s, "getTransactions") =>
        LET list == req[s].out.value
        IN \A i, j \in 1..Len(list) :
              (i < j /\ list[i].date = list[j].date) =>
                  list[i].created_at >= list[j].created_at

----------------------------------------------------------------------------
\* Vocabulary of the client properties.

\* Every request the component issued has completed.
Quiet ==
    /\ client.component # "none"
    /\ \A s \in Slots : client.handler[s] = NoHandler

ListIds == {client.list[i].id : i \in 1..Len(client.list)}

StoreIds ==
    IF client.component = "TransactionManager" THEN {t.id : t \in txns}
    ELSE {i.id : i \in items}

====
